---- MODULE Spec2Model ----
(***************************************************************************)
(* Help-forum thread lifecycle of PygameCommunityBot                       *)
(* (src/pcbot/exts/helpforums_pre/__init__.py, class HelpForumsPreCog).    *)
(*                                                                         *)
(* The event handlers and the hourly sweeps are coroutines: each is        *)
(* modelled as a little program with a position (pc) that advances from    *)
(* one await to the next.  Every await that is a request to the chat       *)
(* platform may fail with an HTTP error.  The two database tables are sets *)
(* of rows.                                                                *)
(***************************************************************************)
EXTENDS Integers, Sequences, FiniteSets, TLC

(***************************************************************************)
(* Bounds of the model.                                                    *)
(***************************************************************************)
MaxExternal == 3
MaxFailures == 1
MaxMessages == 6

(***************************************************************************)
(* Configuration (pcbot/exts/helpforums_pre/constants.py).                 *)
(***************************************************************************)
HELP_FORUM_CHANNEL_IDS == [regulars |-> 101, python |-> 102]
FORUM_THREAD_TAG_LIMIT == 5
THREAD_TITLE_TOO_SHORT_SLOWMODE_DELAY == 300
INVALID_HELP_THREAD_TITLE_TYPES ==
    << "thread_title_too_short", "thread_title_all_caps", "thread_title_single_word" >>
INVALID_HELP_THREAD_TITLE_SCANNING_ENABLED ==
    [thread_title_too_short |-> TRUE, thread_title_all_caps |-> TRUE,
     thread_title_single_word |-> FALSE]
TITLE_TOO_SHORT_BELOW == 5
NAME_KEEP == 72
SOLVED_SLOWMODE == 60
SOLVED_AUTO_ARCHIVE == 60
\* a post whose starter message was deleted is kept if members wrote this many messages
THREAD_DELETION_MESSAGE_THRESHOLD == 2
\* await asyncio.sleep(300) between the deletion warning and the deletion
DELETION_WAIT == 300

\* self.bot.user.id, thread.owner_id, a forum moderator's id, Python's None
\* the clock advances by days
DAY == 24 * 3600

BotId == 1
OwnerId == 42
ModId == 7
\* the member who wrote the reply in a post
HelperId == 8
\* two more members of the guild
MemberA == 11
MemberB == 12
\* white_check_mark_reaction.count >= 4
REACTION_PIN_COUNT == 4
None == 0

(***************************************************************************)
(* Strings are sequences of one-character strings.                         *)
(***************************************************************************)
Upper == {"H", "E", "L", "P", "M"}
Lower == {"h", "i", "f", "x", "m", "y", "b", "u", "g"}
Space == " "
\* the box-drawing bar of the owner marker (U+2502)
Bar == "|"

RECURSIVE StrOfNat(_)
StrOfNat(n) ==
    LET d == << "0", "1", "2", "3", "4", "5", "6", "7", "8", "9" >>
    IN  IF n < 10 THEN << d[n + 1] >> ELSE StrOfNat(n \div 10) \o << d[(n % 10) + 1] >>

\* f"<bar>{thread.owner_id}"
OwnerIdSuffix(owner_id) == << Bar >> \o StrOfNat(owner_id)

\* sub occurs in s at position i
OccursAt(s, sub, i) ==
    /\ i + Len(sub) - 1 <= Len(s)
    /\ \A k \in 1..Len(sub) : s[i + k - 1] = sub[k]

\* str.endswith
EndsWith(s, sub) == Len(sub) <= Len(s) /\ OccursAt(s, sub, Len(s) - Len(sub) + 1)

\* sub in s
Contains(s, sub) == \E i \in 1..(Len(s) + 1) : OccursAt(s, sub, i)

\* str.replace(sub, ""): every non-overlapping occurrence, left to right
RECURSIVE RemoveAll(_, _)
RemoveAll(s, sub) ==
    IF s = << >> THEN << >>
    ELSE IF OccursAt(s, sub, 1)
         THEN RemoveAll(SubSeq(s, Len(sub) + 1, Len(s)), sub)
         ELSE << Head(s) >> \o RemoveAll(Tail(s), sub)

\* " ".join(s.split()): runs of whitespace become one space, none at the ends
RECURSIVE NormalizeWs(_, _)
NormalizeWs(s, pending) ==
    IF s = << >> THEN << >>
    ELSE IF Head(s) = Space THEN NormalizeWs(Tail(s), TRUE)
         ELSE (IF pending THEN << Space >> ELSE << >>) \o << Head(s) >>
              \o NormalizeWs(Tail(s), FALSE)

\* the name as it is
RawTitle(name, owner_id) == name

\* " ".join(thread.name.replace(f"<bar>{thread.owner_id}", "").split())
NormalizedTitle(name, owner_id) ==
    LET stripped == RemoveAll(name, OwnerIdSuffix(owner_id))
        first == IF \E i \in 1..Len(stripped) : stripped[i] # Space
                 THEN CHOOSE i \in 1..Len(stripped) :
                        /\ stripped[i] # Space
                        /\ \A j \in 1..(i - 1) : stripped[j] = Space
                 ELSE Len(stripped) + 1
    IN  NormalizeWs(SubSeq(stripped, first, Len(stripped)), FALSE)

\* INVALID_HELP_THREAD_TITLE_REGEX_PATTERNS[caution_type].search(title) is not None
TitlePatternMatches(caution_type, title) ==
    CASE caution_type = "thread_title_too_short" ->
            Len(title) >= 1 /\ Len(title) < TITLE_TOO_SHORT_BELOW
      [] caution_type = "thread_title_all_caps" ->
            /\ \E i \in 1..Len(title) : title[i] \in Upper
            /\ \A i \in 1..Len(title) : title[i] \notin Lower
      [] caution_type = "thread_title_single_word" ->
            Len(title) >= 1 /\ \A i \in 1..Len(title) : title[i] # Space
      [] OTHER -> FALSE

\* the caution types, in the order of INVALID_HELP_THREAD_TITLE_TYPES
get_help_forum_channel_thread_name_cautions(name, owner_id) ==
    LET title == NormalizedTitle(name, owner_id)
    IN  SelectSeq(INVALID_HELP_THREAD_TITLE_TYPES,
                  LAMBDA c : INVALID_HELP_THREAD_TITLE_SCANNING_ENABLED[c]
                             /\ TitlePatternMatches(c, title))

(***************************************************************************)
(* Forum tags.  A tag is its lower-cased name; the prefix tests of the     *)
(* code are tests on the vocabulary.                                       *)
(***************************************************************************)
AvailableTags == << "issue: bug", "issue: howto", "physics", "audio", "draw",
                    "input", "unsolved", "solved", "invalid" >>
StartsWithSolved(tag) == tag = "solved"
StartsWithUnsolved(tag) == tag = "unsolved"
StartsWithInvalid(tag) == tag = "invalid"
StartsWithIssue(tag) == tag \in {"issue: bug", "issue: howto"}

AnyTag(tags, P(_)) == \E i \in 1..Len(tags) : P(tags[i])

\* the check without the exemption of solved and invalid posts
validate_tags_unexempted(applied_tags) ==
    \/ applied_tags = << >>
    \/ /\ Len(SelectSeq(applied_tags, StartsWithIssue)) = 1
       /\ AnyTag(applied_tags, LAMBDA t : ~(StartsWithIssue(t) \/ StartsWithUnsolved(t)))

validate_regulars_help_forum_channel_thread_tags(applied_tags) ==
    IF applied_tags # << >>
       /\ ~AnyTag(applied_tags, LAMBDA t : StartsWithSolved(t) \/ StartsWithInvalid(t))
    THEN LET issue_tags == SelectSeq(applied_tags, StartsWithIssue)
             aspect_tags == SelectSeq(applied_tags,
                               LAMBDA t : ~(StartsWithIssue(t) \/ StartsWithUnsolved(t)))
         IN  ~(Len(issue_tags) = 0 \/ Len(issue_tags) > 1 \/ aspect_tags = << >>)
    ELSE TRUE


(***************************************************************************)
(* The platform's objects.                                                 *)
(***************************************************************************)
\* 1001 is the post that members open and edit; 1002 is an old post that a
\* moderator has locked
Threads == {1001, 1002}
Posts == {1001}
OldPost == 1002
\* the settings of the help forums unless stated otherwise: no slowmode, and
\* archival after a day
UsualDefaults == [default_thread_slowmode_delay |-> 0,
                  default_auto_archive_duration |-> 1440]
MISSING == -1

\* a discord.Thread, as the client's cache holds it
NoThread == [status |-> "none", parent_id |-> 0, name |-> << >>, applied_tags |-> << >>,
             slowmode_delay |-> 0, auto_archive_duration |-> 0,
             archived |-> FALSE, archiver_id |-> None, locked |-> FALSE,
             flags_pinned |-> FALSE, created_at |-> 0, starter |-> "none",
             reactors |-> {}, reply_pinned |-> FALSE, reply_reactors |-> {}]

\* the keyword arguments collected for thread.edit(**thread_edits)
NoEdits == [keys |-> {}, name |-> << >>, applied_tags |-> << >>,
            slowmode_delay |-> 0, auto_archive_duration |-> 0, archived |-> FALSE]
WithEdit(e, k, v) == [e EXCEPT !.keys = @ \cup {k}, ![k] = v]

\* what a successful thread.edit(**e) makes of thread th
EditedThread(th, e) ==
    [th EXCEPT
       !.name = IF "name" \in e.keys THEN e.name ELSE @,
       !.applied_tags = IF "applied_tags" \in e.keys THEN e.applied_tags ELSE @,
       !.slowmode_delay = IF "slowmode_delay" \in e.keys /\ e.slowmode_delay # MISSING
                          THEN e.slowmode_delay ELSE @,
       !.auto_archive_duration = IF "auto_archive_duration" \in e.keys
                                 THEN e.auto_archive_duration ELSE @,
       !.archived = IF "archived" \in e.keys THEN e.archived ELSE @,
       !.archiver_id = IF "archived" \in e.keys
                       THEN (IF e.archived THEN BotId ELSE None) ELSE @]

\* name.endswith(owner_id_suffix) or str(owner_id) in name
HasOwnerMarker(name, owner_id) ==
    EndsWith(name, OwnerIdSuffix(owner_id)) \/ Contains(name, StrOfNat(owner_id))

\* name + owner_id_suffix
NameWithMarkerUncut(name, owner_id) == name \o OwnerIdSuffix(owner_id)

\* (name if len(name) < 72 else name[:72] + "...") + owner_id_suffix
NameWithOwnerMarker(name, owner_id) ==
    (IF Len(name) < NAME_KEEP THEN name
     ELSE SubSeq(name, 1, NAME_KEEP) \o << ".", ".", "." >>) \o OwnerIdSuffix(owner_id)

\* the first available tag of the forum whose name starts with "unsolved"
FirstTag(P(_)) ==
    IF AnyTag(AvailableTags, P)
    THEN << AvailableTags[CHOOSE i \in 1..Len(AvailableTags) :
                            /\ P(AvailableTags[i])
                            /\ \A j \in 1..(i - 1) : ~P(AvailableTags[j])] >>
    ELSE << >>

(***************************************************************************)
(* The database tables: sets of rows.                                      *)
(***************************************************************************)
\* SELECT EXISTS(SELECT 1 FROM table WHERE thread_id == :thread_id LIMIT 1)
RowExists(table, thread_id) == \E r \in table : r.thread_id = thread_id

\* SELECT * FROM table WHERE thread_id == :thread_id; result.first()
FetchRows(table, thread_id) == {r \in table : r.thread_id = thread_id}

\* an INSERT without the ON CONFLICT clause, into a table without a key
PlainInsert(table, data) == table \cup {data}

\* INSERT INTO table ... ON CONFLICT DO UPDATE SET ... WHERE thread_id == :thread_id
SaveRow(table, data) == {r \in table : r.thread_id # data.thread_id} \cup {data}

\* a DELETE that removes nothing
KeepRows(table, thread_id) == table

\* DELETE FROM table WHERE thread_id == :thread_id
DeleteRows(table, thread_id) == {r \in table : r.thread_id # thread_id}

BadHelpThreadData(thread_id, ts, ids) ==
    [thread_id |-> thread_id, last_cautioned_ts |-> ts, caution_message_ids |-> ids]
\* a record that drops the alert's id
NoAlertData(thread_id, ts, alert_message_id) ==
    [thread_id |-> thread_id, last_active_ts |-> ts, alert_message_id |-> 0]

InactiveHelpThreadData(thread_id, ts, alert_message_id) ==
    [thread_id |-> thread_id, last_active_ts |-> ts, alert_message_id |-> alert_message_id]

(***************************************************************************)
(* State.                                                                  *)
(***************************************************************************)
VARIABLES
    thr,           \* the threads of the help forums
    audit,         \* per thread, the user of its newest thread_update audit-log entry
    sent,          \* every message sent into a thread after its starter message:
                   \* [id, thread, kind, created_at]
    gone,          \* the ids of the messages that were deleted
    nextId,        \* the next message id the platform hands out
    bad_help_thread_data,        \* table: rows BadHelpThreadData
    inactive_help_thread_data,   \* table: rows InactiveHelpThreadData
    queue,         \* gateway events whose handler has not started yet
    h,             \* the running handlers: one frame per slot
    now,           \* time.time()
    ext,           \* number of external events so far
    escaped,       \* the handlers an exception has propagated out of
    sw,            \* the sweep that is running
    checks,        \* the help_thread_deletion_checks coroutines that were started;
                   \* coroutines in the same state are not told apart
    fails,         \* number of platform requests that have failed so far
    flagged,       \* per thread: "flagged" from the end of an on_thread_create that
                   \* cautioned it until the handler of the next member edit ends
    forum,         \* the settings of the help forums
    cog            \* the help command's cog, its responses and its paginators

vars == << thr, audit, sent, gone, nextId, bad_help_thread_data,
           inactive_help_thread_data, queue, h, sw, checks, now, ext, escaped,
           fails, flagged, forum, cog >>

\* parent.default_thread_slowmode_delay, parent.default_auto_archive_duration
ForumDefaults == forum

Slots == {1, 2}

\* a call of send_paginated_response_embeds that has not begun
IdleCall == [pc |-> "idle", embeds |-> 0, response_message |-> None,
             paginator_tuple |-> None]

\* the cog before the help command was ever invoked: cached_response_messages holds
\* the entry of the one invoking message, cached_embed_paginators its entries as
\* pairs; responses are the response messages that exist, running the paginators
\* whose mainloop runs
IdleCog == [cached_response_messages |-> None, cached_embed_paginators |-> {},
            responses |-> {}, running |-> {}, calls |-> [s \in Slots |-> IdleCall],
            sent |-> 0, started |-> 0, invoked |-> 0]

IdleFrame ==
    [pc |-> "idle", op |-> "none", t |-> 0, before |-> NoThread, after0 |-> NoThread,
     actor |-> None, updater_id |-> None, thread_edits |-> NoEdits,
     caution_messages |-> << >>, caution_types |-> << >>, pending |-> << >>,
     issues_found |-> FALSE, new_tags |-> << >>, fetched |-> {}, todo |-> {},
     alert_message_id |-> None, raising |-> FALSE,
     result |-> "", failed_at |-> "", bad0 |-> {}, inactive0 |-> {}, id0 |-> 0,
     asleep |-> NoThread, stale |-> FALSE,
     msg |-> "none", member |-> None, msg_pinned |-> FALSE, msg_count |-> 0,
     reaction_found |-> FALSE]

\* user-chosen thread titles and tag selections
\* the frame of the hourly sweep that is running
IdleSweep ==
    [pc |-> "idle", kind |-> "none", forums |-> << >>, todo |-> << >>, t |-> 0,
     now_ts |-> 0, last_active_ts |-> 0, alert_message_id |-> None,
     last_message_ts |-> 0, raising |-> FALSE, visited |-> {}, listed |-> {},
     result |-> "", edits |-> NoEdits,
     th0 |-> NoThread, rows0 |-> {}, active0 |-> 0, id0 |-> 0, gone0 |-> {},
     sent_alert |-> None,
     failed |-> FALSE, log |-> {}]

UserNames ==
    { << "H", "E", "L", "P" >>,
      << "H", "E", "L", "P", " ", "M", "E" >>,
      << "f", "i", "x", " ", "m", "y", " ", "b", "u", "g" >> }
UserTags ==
    { << >>,
      << "issue: bug", "physics" >>,
      << "physics" >>,
      << "issue: bug", "physics", "solved" >> }

\* a post of the python help forum, handled long ago and locked since
LockedOldPost ==
    [NoThread EXCEPT !.status = "live", !.parent_id = HELP_FORUM_CHANNEL_IDS.python,
        !.name = NameWithOwnerMarker(<< "o", "l", "d", " ", "p", "o", "s", "t" >>, OwnerId),
        !.applied_tags = << "physics" >>,
        !.slowmode_delay = ForumDefaults.default_thread_slowmode_delay,
        !.auto_archive_duration = ForumDefaults.default_auto_archive_duration,
        !.locked = TRUE, !.starter = "pinned"]

Init ==
    /\ forum = UsualDefaults
    /\ cog = IdleCog
    /\ thr = [t \in Threads |-> IF t = OldPost THEN LockedOldPost ELSE NoThread]
    /\ audit = [t \in Threads |-> None]
    /\ sent = {}
    /\ gone = {}
    /\ nextId = 1
    /\ bad_help_thread_data = {}
    /\ inactive_help_thread_data = {}
    /\ queue = << >>
    /\ h = [s \in Slots |-> IdleFrame]
    /\ now = 0
    /\ ext = 0
    /\ escaped = {}
    /\ fails = 0
    /\ sw = IdleSweep
    /\ checks = {}
    /\ flagged = [t \in Threads |-> "new"]

Quiet == queue = << >> /\ \A s \in Slots : h[s].pc = "idle"

Event(type, t, before, after, actor) ==
    [type |-> type, t |-> t, before |-> before, after |-> after, actor |-> actor]

(***************************************************************************)
(* External events: what members and moderators do, and the clock.         *)
(***************************************************************************)
\* a member opens a post in a help forum
CreateThread(t, fid, name, tags) ==
    /\ ext < MaxExternal
    /\ thr[t].status = "none"
    /\ LET new == [NoThread EXCEPT !.status = "live", !.parent_id = fid, !.name = name,
                      !.applied_tags = tags,
                      !.slowmode_delay = ForumDefaults.default_thread_slowmode_delay,
                      !.auto_archive_duration = ForumDefaults.default_auto_archive_duration,
                      !.created_at = now, !.starter = "unpinned"]
       IN  /\ thr' = [thr EXCEPT ![t] = new]
           /\ queue' = Append(queue, Event("thread_create", t, NoThread, new, OwnerId))
    /\ ext' = ext + 1
    /\ UNCHANGED << audit, sent, gone, nextId, bad_help_thread_data,
                    inactive_help_thread_data, h, now, escaped, flagged, forum, cog, fails >>
    /\ UNCHANGED << sw, checks >>

\* the owner or a moderator edits the title, the tags, the lock of a post
UserEdit(t, name, tags, locked) ==
    /\ ext < MaxExternal
    /\ thr[t].status = "live"
    /\ ~thr[t].archived
    /\ LET new == [thr[t] EXCEPT !.name = name, !.applied_tags = tags, !.locked = locked]
           actor == IF locked \/ thr[t].locked THEN ModId ELSE OwnerId
       IN  /\ new # thr[t]
           /\ thr' = [thr EXCEPT ![t] = new]
           /\ audit' = [audit EXCEPT ![t] = actor]
           /\ queue' = Append(queue, Event("thread_update", t, thr[t], new, actor))
    /\ ext' = ext + 1
    /\ UNCHANGED << sent, gone, nextId, bad_help_thread_data,
                    inactive_help_thread_data, h, now, escaped, flagged, forum, cog, fails >>
    /\ UNCHANGED << sw, checks >>

\* the owner or a moderator closes or reopens a post
UserArchive(t, archived) ==
    /\ ext < MaxExternal
    /\ thr[t].status = "live"
    /\ thr[t].archived # archived
    /\ LET new == [thr[t] EXCEPT !.archived = archived,
                                 !.archiver_id = IF archived THEN OwnerId ELSE None]
       IN  /\ thr' = [thr EXCEPT ![t] = new]
           /\ audit' = [audit EXCEPT ![t] = OwnerId]
           /\ queue' = Append(queue, Event("thread_update", t, thr[t], new, OwnerId))
    /\ ext' = ext + 1
    /\ UNCHANGED << sent, gone, nextId, bad_help_thread_data,
                    inactive_help_thread_data, h, now, escaped, flagged, forum, cog, fails >>
    /\ UNCHANGED << sw, checks >>

\* time passes
Tick ==
    /\ ext < MaxExternal
    /\ now' = now + DAY
    /\ ext' = ext + 1
    /\ UNCHANGED << thr, audit, sent, gone, nextId, bad_help_thread_data,
                    inactive_help_thread_data, queue, h, escaped, flagged, forum, cog, fails >>
    /\ UNCHANGED << sw, checks >>

(***************************************************************************)
(* Requests to the platform and to the database, shared by the handlers.   *)
(***************************************************************************)
\* thread.parent_id
ParentOf(t) == thr[t].parent_id

\* thread.send(...): a new message of the given kind in thread t.  Ids are
\* snowflakes: a later message has a larger id and a later created_at
SendMessage(t, kind) ==
    /\ nextId <= MaxMessages
    /\ sent' = sent \cup {[id |-> nextId, thread |-> t, kind |-> kind,
                           created_at |-> now + nextId]}
    /\ nextId' = nextId + 1

\* thread.edit(**e) by the bot, when it succeeds: the thread changes, the audit log
\* names the bot, and the gateway reports a thread_update
BotEdit(t, e) ==
    LET new == EditedThread(thr[t], e)
    IN  /\ thr' = [thr EXCEPT ![t] = new]
        /\ audit' = IF new # thr[t] THEN [audit EXCEPT ![t] = BotId] ELSE audit
        /\ queue' = IF new # thr[t]
                    THEN Append(queue, Event("thread_update", t, thr[t], new, BotId))
                    ELSE queue

\* the handler ends because discord.HTTPException was raised and caught at its end
HttpFailed(f) == [f EXCEPT !.pc = "done", !.result = "HTTPException", !.failed_at = f.pc]
\* the handler ends because an exception it does not catch was raised
Crashed(f, exc) == [f EXCEPT !.pc = "done", !.result = exc, !.failed_at = f.pc]
Finished(f) == [f EXCEPT !.pc = "done", !.result = "ok"]

\* a request of handler s has failed in this step: counted, and bounded
CountFailure(s) ==
    /\ fails' = IF \/ h'[s].result = "HTTPException" /\ h[s].result = ""
                   \/ h'[s].raising /\ ~h[s].raising
                THEN fails + 1 ELSE fails
    /\ fails' <= MaxFailures

\* the ids of no message
NoCautionIds(f) == {}

\* set(msg.id for msg in caution_messages)
CautionIds(f) == {f.caution_messages[i] : i \in 1..Len(f.caution_messages)}
InSeq(x, seq) == \E i \in 1..Len(seq) : seq[i] = x

(***************************************************************************)
(* on_thread_create                                                        *)
(***************************************************************************)
\* thread_edits["name"] when the name lacks the owner marker; then the batched edit
create_owner_marker(f, th) ==
    LET e == IF ~HasOwnerMarker(th.name, OwnerId)
             THEN WithEdit(f.thread_edits, "name", NameWithOwnerMarker(th.name, OwnerId))
             ELSE f.thread_edits
    IN  IF e.keys # {} THEN [f EXCEPT !.thread_edits = e, !.pc = "c_edit"]
        ELSE Finished(f)

create_after_cautions(f, th) ==
    IF f.issues_found THEN [f EXCEPT !.pc = "c_exists"] ELSE create_owner_marker(f, th)

\* the slowmode penalty, then the tag check of the regulars forum
create_after_name_cautions(f, th) ==
    LET f1 == IF InSeq("thread_title_too_short", f.caution_types)
              THEN [f EXCEPT !.thread_edits =
                       WithEdit(@, "slowmode_delay", THREAD_TITLE_TOO_SHORT_SLOWMODE_DELAY)]
              ELSE f
    IN  IF ParentOf(f.t) = HELP_FORUM_CHANNEL_IDS.regulars
           /\ ~validate_regulars_help_forum_channel_thread_tags(th.applied_tags)
        THEN [f1 EXCEPT !.issues_found = TRUE, !.pc = "c_caution_tags"]
        ELSE create_after_cautions(f1, th)

\* the title cautions without the unsolved tag before them
create_keep_tags(f, th) ==
    LET caution_types == get_help_forum_channel_thread_name_cautions(th.name, OwnerId)
        f1 == [f EXCEPT !.caution_types = caution_types, !.pending = caution_types]
    IN  IF caution_types # << >>
        THEN [f1 EXCEPT !.issues_found = TRUE, !.pc = "c_caution_name"]
        ELSE create_after_name_cautions(f1, th)

\* the unsolved tag, then the title cautions
create_after_pin(f, th) ==
    LET applied_tags == th.applied_tags
        new_tags == FirstTag(StartsWithUnsolved)
                    \o SelectSeq(applied_tags, LAMBDA tag : ~StartsWithSolved(tag))
        e == IF \/ Len(applied_tags) < FORUM_THREAD_TAG_LIMIT
                \/ /\ Len(applied_tags) = FORUM_THREAD_TAG_LIMIT
                   /\ AnyTag(applied_tags, StartsWithSolved)
             THEN WithEdit(f.thread_edits, "applied_tags", new_tags)
             ELSE f.thread_edits
        caution_types == get_help_forum_channel_thread_name_cautions(th.name, OwnerId)
        f1 == [f EXCEPT !.thread_edits = e, !.caution_types = caution_types,
                        !.pending = caution_types]
    IN  IF caution_types # << >>
        THEN [f1 EXCEPT !.issues_found = TRUE, !.pc = "c_caution_name"]
        ELSE create_after_name_cautions(f1, th)

\* await starter_message.pin()
CreatePin(s) ==
    /\ h[s].pc = "c_pin"
    /\ LET f == h[s]
           t == f.t
       IN  \E ok \in BOOLEAN :
             IF ok /\ thr[t].status = "live" /\ thr[t].starter # "gone"
             THEN /\ thr' = [thr EXCEPT ![t].starter = "pinned"]
                  /\ h' = [h EXCEPT ![s] = create_after_pin(f, thr'[t])]
             ELSE /\ ~ok
                  /\ thr' = thr
                  /\ h' = [h EXCEPT ![s] = HttpFailed(f)]
    /\ UNCHANGED << audit, sent, gone, nextId, bad_help_thread_data,
                    inactive_help_thread_data, queue, now, ext, escaped, flagged, forum, cog >>
    /\ CountFailure(s)
    /\ UNCHANGED << sw, checks >>

\* await thread.send(...) in caution_about_help_forum_channel_thread_name: one
\* message per caution type
CreateCautionName(s) ==
    /\ h[s].pc = "c_caution_name"
    /\ LET f == h[s]
           t == f.t
       IN  \E ok \in BOOLEAN :
             IF ok /\ thr[t].status = "live"
             THEN /\ SendMessage(t, "caution")
                  /\ LET f1 == [f EXCEPT !.caution_messages = Append(@, nextId),
                                         !.pending = Tail(@)]
                     IN  h' = [h EXCEPT ![s] =
                                  IF f1.pending # << >> THEN f1
                                  ELSE create_after_name_cautions(f1, thr[t])]
             ELSE /\ ~ok
                  /\ UNCHANGED << sent, nextId >>
                  /\ h' = [h EXCEPT ![s] = HttpFailed(f)]
    /\ UNCHANGED << thr, audit, gone, bad_help_thread_data,
                    inactive_help_thread_data, queue, now, ext, escaped, flagged, forum, cog >>
    /\ CountFailure(s)
    /\ UNCHANGED << sw, checks >>

\* await caution_about_regulars_help_forum_channel_thread_tags(thread)
CreateCautionTags(s) ==
    /\ h[s].pc = "c_caution_tags"
    /\ LET f == h[s]
           t == f.t
       IN  \E ok \in BOOLEAN :
             IF ok /\ thr[t].status = "live"
             THEN /\ SendMessage(t, "caution")
                  /\ h' = [h EXCEPT ![s] = create_after_cautions(
                              [f EXCEPT !.caution_messages = Append(@, nextId)], thr[t])]
             ELSE /\ ~ok
                  /\ UNCHANGED << sent, nextId >>
                  /\ h' = [h EXCEPT ![s] = HttpFailed(f)]
    /\ UNCHANGED << thr, audit, gone, bad_help_thread_data,
                    inactive_help_thread_data, queue, now, ext, escaped, flagged, forum, cog >>
    /\ CountFailure(s)
    /\ UNCHANGED << sw, checks >>

\* await self.bad_help_thread_data_exists(thread.id)
CreateExists(s) ==
    /\ h[s].pc = "c_exists"
    /\ LET f == h[s]
       IN  h' = [h EXCEPT ![s] =
                    IF ~RowExists(bad_help_thread_data, f.t)
                    THEN [f EXCEPT !.pc = "c_save"]
                    ELSE create_owner_marker(f, thr[f.t])]
    /\ UNCHANGED << thr, audit, sent, gone, nextId, bad_help_thread_data,
                    inactive_help_thread_data, queue, now, ext, escaped, flagged, forum, cog, fails >>
    /\ UNCHANGED << sw, checks >>

\* await self.save_bad_help_thread_data({...})
CreateSave(s) ==
    /\ h[s].pc = "c_save"
    /\ LET f == h[s]
       IN  /\ bad_help_thread_data' =
                SaveRow(bad_help_thread_data, BadHelpThreadData(f.t, now, CautionIds(f)))
           /\ h' = [h EXCEPT ![s] = create_owner_marker(f, thr[f.t])]
    /\ UNCHANGED << thr, audit, sent, gone, nextId,
                    inactive_help_thread_data, queue, now, ext, escaped, flagged, forum, cog, fails >>
    /\ UNCHANGED << sw, checks >>

\* await thread.edit(**thread_edits)
CreateEdit(s) ==
    /\ h[s].pc = "c_edit"
    /\ LET f == h[s]
           t == f.t
       IN  \E ok \in BOOLEAN :
             IF ok /\ thr[t].status = "live"
             THEN /\ BotEdit(t, f.thread_edits)
                  /\ h' = [h EXCEPT ![s] = Finished(f)]
             ELSE /\ ~ok
                  /\ UNCHANGED << thr, audit, queue >>
                  /\ h' = [h EXCEPT ![s] = HttpFailed(f)]
    /\ UNCHANGED << sent, gone, nextId, bad_help_thread_data,
                    inactive_help_thread_data, now, ext, escaped, flagged, forum, cog >>
    /\ CountFailure(s)
    /\ UNCHANGED << sw, checks >>

(***************************************************************************)
(* on_thread_update                                                        *)
(***************************************************************************)
\* if thread_edits: await asyncio.sleep(5); await after.edit(**thread_edits)
update_final(f) ==
    IF f.thread_edits.keys # {} THEN [f EXCEPT !.pc = "u_sleep"] ELSE Finished(f)

\* the solved and the unsolved transition
update_solved(f, th) ==
    LET solved_in_before == AnyTag(f.before.applied_tags, StartsWithSolved)
        solved_in_after == AnyTag(th.applied_tags, StartsWithSolved)
    IN  IF ~solved_in_before /\ solved_in_after
        THEN [f EXCEPT !.new_tags = SelectSeq(th.applied_tags,
                                              LAMBDA tag : ~StartsWithUnsolved(tag)),
                       !.pc = "u_solved_alert"]
        ELSE IF solved_in_before /\ ~solved_in_after
        THEN LET new_tags == IF Len(th.applied_tags) < FORUM_THREAD_TAG_LIMIT
                             THEN FirstTag(StartsWithUnsolved) \o th.applied_tags
                             ELSE th.applied_tags
                 slowmode_delay == IF th.slowmode_delay = SOLVED_SLOWMODE
                                   THEN ForumDefaults.default_thread_slowmode_delay
                                   ELSE MISSING
             IN  update_final([f EXCEPT !.thread_edits =
                    WithEdit(WithEdit(WithEdit(@,
                        "auto_archive_duration", ForumDefaults.default_auto_archive_duration),
                        "slowmode_delay", slowmode_delay),
                        "applied_tags", new_tags)])
        ELSE update_final(f)

update_after_branch(f) ==
    IF f.issues_found THEN [f EXCEPT !.pc = "u_exists1"] ELSE [f EXCEPT !.pc = "u_exists2"]

\* the slowmode penalty for a too short title, or its end
update_after_name_cautions(f, th) ==
    LET too_short == InSeq("thread_title_too_short", f.caution_types)
        e == IF too_short /\ th.slowmode_delay < THREAD_TITLE_TOO_SHORT_SLOWMODE_DELAY
             THEN WithEdit(f.thread_edits, "slowmode_delay",
                           THREAD_TITLE_TOO_SHORT_SLOWMODE_DELAY)
             ELSE IF ~too_short
                     /\ th.slowmode_delay = THREAD_TITLE_TOO_SHORT_SLOWMODE_DELAY
             THEN WithEdit(f.thread_edits, "slowmode_delay",
                           ForumDefaults.default_thread_slowmode_delay)
             ELSE f.thread_edits
    IN  update_after_branch([f EXCEPT !.thread_edits = e])

\* what changed, and by whom
update_after_audit(f, th) ==
    IF f.before.name # th.name /\ f.updater_id # BotId
    THEN LET caution_types == get_help_forum_channel_thread_name_cautions(th.name, OwnerId)
         IN  IF caution_types # << >>
             THEN [f EXCEPT !.issues_found = TRUE, !.caution_types = caution_types,
                            !.pending = caution_types, !.pc = "u_caution_name"]
             ELSE update_after_branch(f)
    ELSE IF f.before.applied_tags # th.applied_tags /\ f.updater_id # BotId
    THEN IF ParentOf(f.t) = HELP_FORUM_CHANNEL_IDS.regulars
            /\ ~validate_regulars_help_forum_channel_thread_tags(th.applied_tags)
         THEN [f EXCEPT !.issues_found = TRUE, !.pc = "u_caution_tags"]
         ELSE update_after_branch(f)
    ELSE update_after_branch(f)

\* an archived, unlocked, solved thread: slowmode and owner marker
update_archived(f, th) ==
    IF AnyTag(th.applied_tags, StartsWithSolved)
    THEN LET e1 == IF th.slowmode_delay = ForumDefaults.default_thread_slowmode_delay
                   THEN WithEdit(NoEdits, "slowmode_delay", SOLVED_SLOWMODE)
                   ELSE NoEdits
             e2 == IF ~HasOwnerMarker(th.name, OwnerId)
                   THEN WithEdit(e1, "name", NameWithOwnerMarker(th.name, OwnerId))
                   ELSE e1
         IN  IF e2.keys # {} THEN [f EXCEPT !.thread_edits = e2, !.pc = "a_unarchive"]
             ELSE Finished(f)
    ELSE Finished(f)

\* the handler's code up to its first await
on_thread_update_start(f, th) ==
    IF ~(th.archived \/ th.locked) THEN [f EXCEPT !.pc = "u_audit"]
    ELSE IF th.archived /\ ~th.locked THEN update_archived(f, th)
    ELSE Finished(f)

\* async for action in after.guild.audit_logs(limit=20, action=thread_update)
UpdateAudit(s) ==
    /\ h[s].pc = "u_audit"
    /\ LET f == h[s]
       IN  \E ok \in BOOLEAN :
             h' = [h EXCEPT ![s] =
                     IF ok THEN update_after_audit([f EXCEPT !.updater_id = audit[f.t]],
                                                   thr[f.t])
                     ELSE HttpFailed(f)]
    /\ UNCHANGED << thr, audit, sent, gone, nextId, bad_help_thread_data,
                    inactive_help_thread_data, queue, now, ext, escaped, flagged, forum, cog >>
    /\ CountFailure(s)
    /\ UNCHANGED << sw, checks >>

\* await thread.send(...) in caution_about_help_forum_channel_thread_name
UpdateCautionName(s) ==
    /\ h[s].pc = "u_caution_name"
    /\ LET f == h[s]
           t == f.t
       IN  \E ok \in BOOLEAN :
             IF ok /\ thr[t].status = "live"
             THEN /\ SendMessage(t, "caution")
                  /\ LET f1 == [f EXCEPT !.caution_messages = Append(@, nextId),
                                         !.pending = Tail(@)]
                     IN  h' = [h EXCEPT ![s] =
                                  IF f1.pending # << >> THEN f1
                                  ELSE update_after_name_cautions(f1, thr[t])]
             ELSE /\ ~ok
                  /\ UNCHANGED << sent, nextId >>
                  /\ h' = [h EXCEPT ![s] = HttpFailed(f)]
    /\ UNCHANGED << thr, audit, gone, bad_help_thread_data,
                    inactive_help_thread_data, queue, now, ext, escaped, flagged, forum, cog >>
    /\ CountFailure(s)
    /\ UNCHANGED << sw, checks >>

\* await caution_about_regulars_help_forum_channel_thread_tags(after)
UpdateCautionTags(s) ==
    /\ h[s].pc = "u_caution_tags"
    /\ LET f == h[s]
           t == f.t
       IN  \E ok \in BOOLEAN :
             IF ok /\ thr[t].status = "live"
             THEN /\ SendMessage(t, "caution")
                  /\ h' = [h EXCEPT ![s] = update_after_branch(
                              [f EXCEPT !.caution_messages = Append(@, nextId)])]
             ELSE /\ ~ok
                  /\ UNCHANGED << sent, nextId >>
                  /\ h' = [h EXCEPT ![s] = HttpFailed(f)]
    /\ UNCHANGED << thr, audit, gone, bad_help_thread_data,
                    inactive_help_thread_data, queue, now, ext, escaped, flagged, forum, cog >>
    /\ CountFailure(s)
    /\ UNCHANGED << sw, checks >>

\* if not await self.bad_help_thread_data_exists(after.id)
UpdateExistsBad(s) ==
    /\ h[s].pc = "u_exists1"
    /\ h' = [h EXCEPT ![s].pc = IF ~RowExists(bad_help_thread_data, h[s].t)
                                THEN "u_save1" ELSE "u_fetch1"]
    /\ UNCHANGED << thr, audit, sent, gone, nextId, bad_help_thread_data,
                    inactive_help_thread_data, queue, now, ext, escaped, flagged, forum, cog, fails >>
    /\ UNCHANGED << sw, checks >>

\* await self.save_bad_help_thread_data({...}) for a thread without a record
UpdateSaveNew(s) ==
    /\ h[s].pc = "u_save1"
    /\ LET f == h[s]
       IN  bad_help_thread_data' =
             SaveRow(bad_help_thread_data, BadHelpThreadData(f.t, now, CautionIds(f)))
    /\ h' = [h EXCEPT ![s].pc = "u_fetch1"]
    /\ UNCHANGED << thr, audit, sent, gone, nextId,
                    inactive_help_thread_data, queue, now, ext, escaped, flagged, forum, cog, fails >>
    /\ UNCHANGED << sw, checks >>

\* bad_thread_data = await self.fetch_bad_help_thread_data(after.id)
UpdateFetchBad(s) ==
    /\ h[s].pc = "u_fetch1"
    /\ LET f == h[s]
           rows == FetchRows(bad_help_thread_data, f.t)
       IN  IF rows = {}
           THEN /\ h' = [h EXCEPT ![s] = Crashed(f, "LookupError")]
                /\ escaped' = escaped \cup {f.op}
           ELSE /\ h' = [h EXCEPT ![s] =
                           [f EXCEPT !.fetched = (CHOOSE r \in rows : TRUE).caution_message_ids,
                                     !.pc = "u_save2"]]
                /\ escaped' = escaped
    /\ UNCHANGED << thr, audit, sent, gone, nextId, bad_help_thread_data,
                    inactive_help_thread_data, queue, now, ext, flagged, forum, cog, fails >>
    /\ UNCHANGED << sw, checks >>

\* the new ids alone
NewIdsOnly(fetched, new) == new

\* the record's ids united with the ids of the new caution messages
UnionOfIds(fetched, new) == fetched \cup new

\* await self.save_bad_help_thread_data({..., fetched ids | new ids})
UpdateSaveUnion(s) ==
    /\ h[s].pc = "u_save2"
    /\ LET f == h[s]
       IN  /\ bad_help_thread_data' =
                SaveRow(bad_help_thread_data,
                        BadHelpThreadData(f.t, now, UnionOfIds(f.fetched, CautionIds(f))))
           /\ h' = [h EXCEPT ![s] = update_final(f)]
    /\ UNCHANGED << thr, audit, sent, gone, nextId,
                    inactive_help_thread_data, queue, now, ext, escaped, flagged, forum, cog, fails >>
    /\ UNCHANGED << sw, checks >>

\* the help thread has no issues anymore
NoIssuesAnymore(exists, updater_id, t, th) ==
    /\ exists
    /\ updater_id # BotId
    /\ ~(\/ get_help_forum_channel_thread_name_cautions(th.name, OwnerId) # << >>
         \/ /\ ParentOf(t) = HELP_FORUM_CHANNEL_IDS.regulars
            /\ ~validate_regulars_help_forum_channel_thread_tags(th.applied_tags))

\* await self.bad_help_thread_data_exists(after.id) and ... : is the thread resolved?
UpdateExistsResolved(s) ==
    /\ h[s].pc = "u_exists2"
    /\ LET f == h[s]
           th == thr[f.t]
       IN  h' = [h EXCEPT ![s] =
                    IF NoIssuesAnymore(RowExists(bad_help_thread_data, f.t),
                                       f.updater_id, f.t, th)
                    THEN [f EXCEPT
                            !.thread_edits =
                               IF th.slowmode_delay = THREAD_TITLE_TOO_SHORT_SLOWMODE_DELAY
                               THEN WithEdit(@, "slowmode_delay",
                                             ForumDefaults.default_thread_slowmode_delay)
                               ELSE @,
                            !.pc = "u_fetch2"]
                    ELSE update_solved(f, th)]
    /\ UNCHANGED << thr, audit, sent, gone, nextId, bad_help_thread_data,
                    inactive_help_thread_data, queue, now, ext, escaped, flagged, forum, cog, fails >>
    /\ UNCHANGED << sw, checks >>

\* bad_thread_data = await self.fetch_bad_help_thread_data(after.id), resolved thread
UpdateFetchResolved(s) ==
    /\ h[s].pc = "u_fetch2"
    /\ LET f == h[s]
           rows == FetchRows(bad_help_thread_data, f.t)
       IN  IF rows = {}
           THEN /\ h' = [h EXCEPT ![s] = Crashed(f, "LookupError")]
                /\ escaped' = escaped \cup {f.op}
           ELSE /\ LET ids == (CHOOSE r \in rows : TRUE).caution_message_ids
                   IN  h' = [h EXCEPT ![s] =
                                [f EXCEPT !.todo = ids,
                                          !.pc = IF ids = {} THEN "u_delete_row"
                                                 ELSE "u_delete_msgs"]]
                /\ escaped' = escaped
    /\ UNCHANGED << thr, audit, sent, gone, nextId, bad_help_thread_data,
                    inactive_help_thread_data, queue, now, ext, flagged, forum, cog, fails >>
    /\ UNCHANGED << sw, checks >>

\* await after.get_partial_message(msg_id).delete(); discord.NotFound is passed over
UpdateDeleteCaution(s) ==
    /\ h[s].pc = "u_delete_msgs"
    /\ LET f == h[s]
       IN  \E msg_id \in f.todo, ok \in BOOLEAN :
             LET rest == f.todo \ {msg_id}
                 f1 == [f EXCEPT !.todo = rest,
                                 !.pc = IF rest = {} THEN "u_delete_row" ELSE @]
             IN  IF ok
                 THEN /\ gone' = gone \cup {msg_id}
                      /\ h' = [h EXCEPT ![s] = f1]
                 ELSE /\ gone' = gone
                      /\ h' = [h EXCEPT ![s] = HttpFailed(f)]
    /\ UNCHANGED << thr, audit, sent, nextId, bad_help_thread_data,
                    inactive_help_thread_data, queue, now, ext, escaped, flagged, forum, cog >>
    /\ CountFailure(s)
    /\ UNCHANGED << sw, checks >>

\* await self.delete_bad_help_thread_data(after.id)
UpdateDeleteBad(s) ==
    /\ h[s].pc = "u_delete_row"
    /\ bad_help_thread_data' = DeleteRows(bad_help_thread_data, h[s].t)
    /\ h' = [h EXCEPT ![s] = update_solved(h[s], thr[h[s].t])]
    /\ UNCHANGED << thr, audit, sent, gone, nextId,
                    inactive_help_thread_data, queue, now, ext, escaped, flagged, forum, cog, fails >>
    /\ UNCHANGED << sw, checks >>

\* await self.send_help_thread_solved_alert(after), then the edits of the transition
UpdateSolvedAlert(s) ==
    /\ h[s].pc = "u_solved_alert"
    /\ LET f == h[s]
           t == f.t
       IN  \E ok \in BOOLEAN :
             IF ok /\ thr[t].status = "live"
             THEN /\ SendMessage(t, "solved_alert")
                  /\ h' = [h EXCEPT ![s] =
                             [f EXCEPT !.thread_edits =
                                 WithEdit(WithEdit(@,
                                    "auto_archive_duration", SOLVED_AUTO_ARCHIVE),
                                    "applied_tags", f.new_tags),
                                       !.pc = "u_in_exists"]]
             ELSE /\ ~ok
                  /\ UNCHANGED << sent, nextId >>
                  /\ h' = [h EXCEPT ![s] = HttpFailed(f)]
    /\ UNCHANGED << thr, audit, gone, bad_help_thread_data,
                    inactive_help_thread_data, queue, now, ext, escaped, flagged, forum, cog >>
    /\ CountFailure(s)
    /\ UNCHANGED << sw, checks >>

\* if await self.inactive_help_thread_data_exists(after.id)
UpdateExistsInactive(s) ==
    /\ h[s].pc = "u_in_exists"
    /\ h' = [h EXCEPT ![s] = IF RowExists(inactive_help_thread_data, h[s].t)
                             THEN [h[s] EXCEPT !.pc = "u_in_fetch"]
                             ELSE update_final(h[s])]
    /\ UNCHANGED << thr, audit, sent, gone, nextId, bad_help_thread_data,
                    inactive_help_thread_data, queue, now, ext, escaped, flagged, forum, cog, fails >>
    /\ UNCHANGED << sw, checks >>

\* inactive_thread_data = await self.fetch_inactive_help_thread_data(after.id)
UpdateFetchInactive(s) ==
    /\ h[s].pc = "u_in_fetch"
    /\ LET f == h[s]
           rows == FetchRows(inactive_help_thread_data, f.t)
       IN  IF rows = {}
           THEN /\ h' = [h EXCEPT ![s] = Crashed(f, "LookupError")]
                /\ escaped' = escaped \cup {f.op}
           ELSE /\ LET id == (CHOOSE r \in rows : TRUE).alert_message_id
                   IN  h' = [h EXCEPT ![s] =
                                [f EXCEPT !.alert_message_id = id,
                                          !.pc = IF id # None THEN "u_in_delete_msg"
                                                 ELSE "u_in_delete_row"]]
                /\ escaped' = escaped
    /\ UNCHANGED << thr, audit, sent, gone, nextId, bad_help_thread_data,
                    inactive_help_thread_data, queue, now, ext, flagged, forum, cog, fails >>
    /\ UNCHANGED << sw, checks >>

\* await after.get_partial_message(alert_message_id).delete(); the finally clause
\* runs whatever happens
UpdateDeleteAlert(s) ==
    /\ h[s].pc = "u_in_delete_msg"
    /\ LET f == h[s]
       IN  \E ok \in BOOLEAN :
             /\ gone' = IF ok THEN gone \cup {f.alert_message_id} ELSE gone
             /\ h' = [h EXCEPT ![s] = [f EXCEPT !.raising = ~ok, !.pc = "u_in_delete_row"]]
    /\ UNCHANGED << thr, audit, sent, nextId, bad_help_thread_data,
                    inactive_help_thread_data, queue, now, ext, escaped, flagged, forum, cog >>
    /\ CountFailure(s)
    /\ UNCHANGED << sw, checks >>

\* the deletion of the row as the last statement of the try block instead of in a
\* finally clause
UpdateDeleteInactiveUnlessRaising(s) ==
    /\ h[s].pc = "u_in_delete_row"
    /\ inactive_help_thread_data' = IF h[s].raising
                                    THEN inactive_help_thread_data
                                    ELSE DeleteRows(inactive_help_thread_data, h[s].t)
    /\ h' = [h EXCEPT ![s] = IF h[s].raising
                             THEN [HttpFailed(h[s]) EXCEPT !.failed_at = "u_in_delete_msg"]
                             ELSE update_final(h[s])]
    /\ UNCHANGED << thr, audit, sent, gone, nextId, bad_help_thread_data,
                    queue, now, ext, escaped, flagged, forum, cog, fails >>
    /\ UNCHANGED << sw, checks >>

\* finally: await self.delete_inactive_help_thread_data(after.id)
UpdateDeleteInactive(s) ==
    /\ h[s].pc = "u_in_delete_row"
    /\ inactive_help_thread_data' = DeleteRows(inactive_help_thread_data, h[s].t)
    /\ h' = [h EXCEPT ![s] = IF h[s].raising
                             THEN [HttpFailed(h[s]) EXCEPT !.failed_at = "u_in_delete_msg"]
                             ELSE update_final(h[s])]
    /\ UNCHANGED << thr, audit, sent, gone, nextId, bad_help_thread_data,
                    queue, now, ext, escaped, flagged, forum, cog, fails >>
    /\ UNCHANGED << sw, checks >>

\* a member has changed the name, the tags or the slowmode of the thread since the
\* handler went to sleep, and the edit e puts another value in its place
OverwritesMemberEdit(t, asleep, e) ==
    /\ audit[t] # BotId
    /\ \/ "name" \in e.keys /\ thr[t].name # asleep.name /\ e.name # thr[t].name
       \/ "applied_tags" \in e.keys /\ thr[t].applied_tags # asleep.applied_tags
             /\ e.applied_tags # thr[t].applied_tags
       \/ "slowmode_delay" \in e.keys /\ e.slowmode_delay # MISSING
             /\ thr[t].slowmode_delay # asleep.slowmode_delay
             /\ e.slowmode_delay # thr[t].slowmode_delay

\* await asyncio.sleep(5): the handler goes to sleep; the edit that follows is its
\* next step
UpdateSleep(s) ==
    /\ h[s].pc \in {"u_sleep", "a_sleep"}
    /\ h' = [h EXCEPT ![s].pc = IF h[s].pc = "u_sleep" THEN "u_edit" ELSE "a_edit",
                      ![s].asleep = thr[h[s].t]]
    /\ UNCHANGED << thr, audit, sent, gone, nextId, bad_help_thread_data,
                    inactive_help_thread_data, queue, now, ext, escaped, flagged, forum, cog, fails >>
    /\ UNCHANGED << sw, checks >>

\* await after.edit(**thread_edits): the edits in one batch
UpdateEdit(s) ==
    /\ h[s].pc = "u_edit"
    /\ LET f == h[s]
           t == f.t
       IN  \E ok \in BOOLEAN :
             IF ok /\ thr[t].status = "live"
             THEN /\ BotEdit(t, f.thread_edits)
                  /\ h' = [h EXCEPT ![s] =
                        [Finished(f) EXCEPT !.stale =
                            OverwritesMemberEdit(t, f.asleep, f.thread_edits)]]
             ELSE /\ ~ok
                  /\ UNCHANGED << thr, audit, queue >>
                  /\ h' = [h EXCEPT ![s] = HttpFailed(f)]
    /\ UNCHANGED << sent, gone, nextId, bad_help_thread_data,
                    inactive_help_thread_data, now, ext, escaped, flagged, forum, cog >>
    /\ CountFailure(s)
    /\ UNCHANGED << sw, checks >>

\* await after.edit(archived=False)
UpdateUnarchive(s) ==
    /\ h[s].pc = "a_unarchive"
    /\ LET f == h[s]
           t == f.t
       IN  \E ok \in BOOLEAN :
             IF ok /\ thr[t].status = "live"
             THEN /\ BotEdit(t, WithEdit(NoEdits, "archived", FALSE))
                  /\ h' = [h EXCEPT ![s].pc = "a_sleep"]
             ELSE /\ ~ok
                  /\ UNCHANGED << thr, audit, queue >>
                  /\ h' = [h EXCEPT ![s] = HttpFailed(f)]
    /\ UNCHANGED << sent, gone, nextId, bad_help_thread_data,
                    inactive_help_thread_data, now, ext, escaped, flagged, forum, cog >>
    /\ CountFailure(s)
    /\ UNCHANGED << sw, checks >>

\* thread_edits["archived"] = True; await after.edit(**thread_edits)
UpdateRearchive(s) ==
    /\ h[s].pc = "a_edit"
    /\ LET f == h[s]
           t == f.t
       IN  \E ok \in BOOLEAN :
             IF ok /\ thr[t].status = "live"
             THEN /\ BotEdit(t, WithEdit(f.thread_edits, "archived", TRUE))
                  /\ h' = [h EXCEPT ![s] =
                        [Finished(f) EXCEPT !.stale =
                            OverwritesMemberEdit(t, f.asleep, f.thread_edits)]]
             ELSE /\ ~ok
                  /\ UNCHANGED << thr, audit, queue >>
                  /\ h' = [h EXCEPT ![s] = HttpFailed(f)]
    /\ UNCHANGED << sent, gone, nextId, bad_help_thread_data,
                    inactive_help_thread_data, now, ext, escaped, flagged, forum, cog >>
    /\ CountFailure(s)
    /\ UNCHANGED << sw, checks >>

(***************************************************************************)
(* The hourly sweeps.  One frame, sw, holds the sweep that is running.     *)
(***************************************************************************)
\* 23h30m
INACTIVITY_SECONDS == 3600 * 23 + 1800

ForumIds == << HELP_FORUM_CHANNEL_IDS.regulars, HELP_FORUM_CHANNEL_IDS.python >>
ThreadOrder == << 1001, 1002 >>

\* itertools.chain(forum_channel.threads, archived_threads(limit=20)): the posts of
\* the forum, open ones first
ForumThreads(fid, archived_too) ==
    SelectSeq(ThreadOrder, LAMBDA t : /\ thr[t].parent_id = fid
                                      /\ thr[t].status = "live"
                                      /\ ~thr[t].archived)
    \o (IF archived_too
        THEN SelectSeq(ThreadOrder, LAMBDA t : /\ thr[t].parent_id = fid
                                               /\ thr[t].status = "live"
                                               /\ thr[t].archived)
        ELSE << >>)

\* the messages of thread t that exist
Messages(t) == {m \in sent : m.thread = t /\ m.id \notin gone}
\* the newest message of the thread, if any
LastMessages(t) == {m \in Messages(t) : \A m2 \in Messages(t) : m2.id <= m.id}

\* fetch_message(last_message_id) raised something other than NotFound; or
\* history(limit=1) raised and was passed over; or the requests went through
ActivityOutcomes == {"ok", "raised", "history_failed"}

\* fetch_last_thread_activity_dt(thread).timestamp()
fetch_last_thread_activity_dt(t, out) ==
    IF out = "ok" /\ Messages(t) # {}
    THEN (CHOOSE m \in LastMessages(t) : TRUE).created_at
    ELSE thr[t].created_at

\* the newest message is the starter message when nothing was sent after it
CreatedAtOf(id) == (CHOOSE m \in sent : m.id = id).created_at

\* what the pass keeps of an iteration: the thread as the iteration found it, the
\* thread's InactiveThreadRecord and last activity then, the alert the iteration
\* posted, and whether a request of the iteration raised
Iteration(w) ==
    [t |-> w.t, kind |-> w.kind, th0 |-> w.th0, rows0 |-> w.rows0,
     active0 |-> w.active0, id0 |-> w.id0, gone0 |-> w.gone0, now_ts |-> w.now_ts,
     sent_alert |-> w.sent_alert,
     edits |-> w.edits, failed |-> w.failed]

\* the iteration on a thread is over
iteration_over(w) ==
    IF w.t = None THEN w ELSE [w EXCEPT !.log = @ \cup {Iteration(w)}, !.t = None]

SweepCrashed(w, exc) ==
    [iteration_over([w EXCEPT !.failed = TRUE]) EXCEPT !.pc = "done", !.result = exc]

\* forum_channel.permissions_for(member).manage_threads
HasManageThreads(user_id) == user_id \in {ModId, BotId}

\* allow alert suppression by the owner or a forum moderator who archived the thread
AlertSuppressed(th) ==
    /\ th.archived
    /\ th.archiver_id # None
    /\ (th.archiver_id = OwnerId \/ HasManageThreads(th.archiver_id))

\* the threads of a forum are taken for the inner loop
sweep_listed(w, todo) ==
    [w EXCEPT !.forums = Tail(@), !.todo = todo, !.now_ts = now,
              !.listed = @ \cup {todo[i] : i \in 1..Len(todo)}]

RECURSIVE sweep_next_forum(_)
RECURSIVE sweep_next_thread(_)

\* the next forum: the two sweeps that chain archived_threads() await its listing,
\* the archive sweep reads forum_channel.threads
sweep_next_forum(w) ==
    IF w.forums = << >> THEN [w EXCEPT !.pc = "done", !.result = "ok"]
    ELSE IF w.kind = "archive"
    THEN sweep_next_thread(sweep_listed(w, ForumThreads(Head(w.forums), FALSE)))
    ELSE [w EXCEPT !.pc = "w_list"]

\* the loop over the threads of a forum, up to the next await
sweep_next_thread(w) ==
    IF w.t # None THEN sweep_next_thread(iteration_over(w))
    ELSE IF w.todo = << >> THEN sweep_next_forum(w)
    ELSE LET t == Head(w.todo)
             th == thr[t]
             w1 == [w EXCEPT !.todo = Tail(@), !.t = t, !.visited = @ \cup {t},
                             !.raising = FALSE, !.edits = NoEdits,
                             !.th0 = th,
                             !.rows0 = FetchRows(inactive_help_thread_data, t),
                             !.active0 = fetch_last_thread_activity_dt(t, "ok"),
                             !.id0 = nextId, !.gone0 = gone,
                             !.sent_alert = None, !.failed = FALSE]
         IN  CASE w.kind = "inactive" ->
                    IF ~(th.locked \/ th.flags_pinned
                         \/ AnyTag(th.applied_tags, StartsWithSolved))
                    THEN [w1 EXCEPT !.pc = "i_activity"]
                    ELSE sweep_next_thread(w1)
               [] w.kind = "orphans" ->
                    [w1 EXCEPT !.pc = "o_starter"]
               [] OTHER ->
                    IF ~(th.archived \/ th.locked \/ th.flags_pinned)
                    THEN [w1 EXCEPT !.pc = "f_activity"]
                    ELSE sweep_next_thread(w1)

\* the timer of a tasks.loop(hours=1) fires
StartSweep(kind) ==
    /\ sw.pc = "idle"
    /\ sw' = sweep_next_forum([IdleSweep EXCEPT !.kind = kind, !.forums = ForumIds])
    /\ UNCHANGED << thr, audit, sent, gone, nextId, bad_help_thread_data,
                    inactive_help_thread_data, queue, h, now, ext, escaped,
                    flagged, forum, cog, fails, checks >>

\* [thr async for thr in forum_channel.archived_threads(limit=20)]; now_ts = time.time()
SweepList ==
    /\ sw.pc = "w_list"
    /\ \E ok \in BOOLEAN :
         /\ fails' = IF ok THEN fails ELSE fails + 1
         /\ fails' <= MaxFailures
         /\ IF ok
            THEN /\ sw' = sweep_next_thread(
                                sweep_listed(sw, ForumThreads(Head(sw.forums), TRUE)))
                 /\ escaped' = escaped
            ELSE /\ sw' = SweepCrashed(sw, "ListingFailed")
                 /\ escaped' = escaped \cup {sw.kind}
    /\ UNCHANGED << thr, audit, sent, gone, nextId, bad_help_thread_data,
                    inactive_help_thread_data, queue, h, now, ext, flagged, forum, cog, checks >>

\* except discord.HTTPException: pass -- on to the next thread
sweep_skip(w) == sweep_next_thread([w EXCEPT !.failed = TRUE])

(* inactive_help_thread_alert *)

\* last_active_ts = (await self.fetch_last_thread_activity_dt(help_thread)).timestamp()
InactiveActivity ==
    /\ sw.pc = "i_activity"
    /\ \E out \in ActivityOutcomes :
         /\ fails' = IF out = "ok" THEN fails ELSE fails + 1
         /\ fails' <= MaxFailures
         /\ sw' = IF out = "raised" THEN sweep_skip(sw)
                  ELSE LET last_active_ts == fetch_last_thread_activity_dt(sw.t, out)
                       IN  [sw EXCEPT !.last_active_ts = last_active_ts,
                                      !.failed = (out # "ok"),
                                      !.pc = IF sw.now_ts - last_active_ts > INACTIVITY_SECONDS
                                             THEN "i_exists1" ELSE "i_exists2"]
    /\ UNCHANGED << thr, audit, sent, gone, nextId, bad_help_thread_data,
                    inactive_help_thread_data, queue, h, now, ext, escaped,
                    flagged, forum, cog, checks >>

\* an alert whatever the archiver
alert_anyway(w) == [w EXCEPT !.pc = "i_send"]

\* if not (archived by the owner or a moderator): send the alert
inactive_alert_or_skip(w) ==
    IF ~AlertSuppressed(thr[w.t]) THEN [w EXCEPT !.pc = "i_send"] ELSE sweep_next_thread(w)

\* not await self.inactive_help_thread_data_exists(help_thread.id)
InactiveExists ==
    /\ sw.pc = "i_exists1"
    /\ sw' = IF ~RowExists(inactive_help_thread_data, sw.t)
             THEN inactive_alert_or_skip(sw)
             ELSE [sw EXCEPT !.pc = "i_fetch1"]
    /\ UNCHANGED << thr, audit, sent, gone, nextId, bad_help_thread_data,
                    inactive_help_thread_data, queue, h, now, ext, escaped,
                    flagged, forum, cog, fails, checks >>

\* (await self.fetch_inactive_help_thread_data(help_thread.id))["last_active_ts"]
\*     < last_active_ts
InactiveFetch ==
    /\ sw.pc = "i_fetch1"
    /\ LET rows == FetchRows(inactive_help_thread_data, sw.t)
       IN  IF rows = {}
           THEN /\ sw' = SweepCrashed(sw, "LookupError")
                /\ escaped' = escaped \cup {sw.kind}
           ELSE /\ sw' = IF (CHOOSE r \in rows : TRUE).last_active_ts < sw.last_active_ts
                         THEN inactive_alert_or_skip(sw)
                         ELSE sweep_next_thread(sw)
                /\ escaped' = escaped
    /\ UNCHANGED << thr, audit, sent, gone, nextId, bad_help_thread_data,
                    inactive_help_thread_data, queue, h, now, ext,
                    flagged, forum, cog, fails, checks >>

\* alert_message = await help_thread.send("help-post-inactive...")
InactiveSend ==
    /\ sw.pc = "i_send"
    /\ \E ok \in BOOLEAN :
         \* a thread that was deleted in the meantime: discord.NotFound
         /\ fails' = IF ok \/ thr[sw.t].status # "live" THEN fails ELSE fails + 1
         /\ fails' <= MaxFailures
         /\ IF ok /\ thr[sw.t].status = "live"
            THEN /\ SendMessage(sw.t, "inactive_alert")
                 /\ sw' = [sw EXCEPT !.alert_message_id = nextId,
                                      !.sent_alert = nextId, !.pc = "i_save"]
            ELSE /\ UNCHANGED << sent, nextId >>
                 /\ sw' = sweep_skip(sw)
    /\ UNCHANGED << thr, audit, gone, bad_help_thread_data,
                    inactive_help_thread_data, queue, h, now, ext, escaped,
                    flagged, forum, cog, checks >>

\* a save that stores the time of the activity before the alert instead
InactiveSaveActivity ==
    /\ sw.pc = "i_save"
    /\ inactive_help_thread_data' =
         SaveRow(inactive_help_thread_data,
                 InactiveHelpThreadData(sw.t, sw.last_active_ts, sw.alert_message_id))
    /\ sw' = sweep_next_thread(sw)
    /\ UNCHANGED << thr, audit, sent, gone, nextId, bad_help_thread_data,
                    queue, h, now, ext, escaped, flagged, forum, cog, fails, checks >>

\* await self.save_inactive_help_thread_data({thread_id, alert's time, alert's id})
InactiveSave ==
    /\ sw.pc = "i_save"
    /\ inactive_help_thread_data' =
         SaveRow(inactive_help_thread_data,
                 InactiveHelpThreadData(sw.t, CreatedAtOf(sw.alert_message_id),
                                        sw.alert_message_id))
    /\ sw' = sweep_next_thread(sw)
    /\ UNCHANGED << thr, audit, sent, gone, nextId, bad_help_thread_data,
                    queue, h, now, ext, escaped, flagged, forum, cog, fails, checks >>

\* elif await self.inactive_help_thread_data_exists(help_thread.id) and ...
InactiveExistsRecent ==
    /\ sw.pc = "i_exists2"
    /\ sw' = IF RowExists(inactive_help_thread_data, sw.t)
             THEN [sw EXCEPT !.pc = "i_fetch2"]
             ELSE sweep_next_thread(sw)
    /\ UNCHANGED << thr, audit, sent, gone, nextId, bad_help_thread_data,
                    inactive_help_thread_data, queue, h, now, ext, escaped,
                    flagged, forum, cog, fails, checks >>

\* the record's alert message, if it is older than the last activity
InactiveFetchRecent ==
    /\ sw.pc = "i_fetch2"
    /\ LET rows == FetchRows(inactive_help_thread_data, sw.t)
       IN  IF rows = {}
           THEN /\ sw' = SweepCrashed(sw, "LookupError")
                /\ escaped' = escaped \cup {sw.kind}
           ELSE /\ LET id == (CHOOSE r \in rows : TRUE).alert_message_id
                   IN  sw' = IF id # None /\ CreatedAtOf(id) < sw.last_active_ts
                             THEN [sw EXCEPT !.alert_message_id = id, !.pc = "i_last_msg"]
                             ELSE sweep_next_thread(sw)
                /\ escaped' = escaped
    /\ UNCHANGED << thr, audit, sent, gone, nextId, bad_help_thread_data,
                    inactive_help_thread_data, queue, h, now, ext,
                    flagged, forum, cog, fails, checks >>

\* last_message = await self.fetch_last_thread_message(help_thread)
InactiveLastMessage ==
    /\ sw.pc = "i_last_msg"
    /\ \E ok \in BOOLEAN :
         /\ fails' = IF ok THEN fails ELSE fails + 1
         /\ fails' <= MaxFailures
         /\ sw' = IF ~ok THEN sweep_skip(sw)
                  ELSE IF \E m \in LastMessages(sw.t) : m.kind # "system"
                  THEN [sw EXCEPT !.last_message_ts =
                                     (CHOOSE m \in LastMessages(sw.t) : TRUE).created_at,
                                  !.pc = "i_delete"]
                  ELSE sweep_next_thread(sw)
    /\ UNCHANGED << thr, audit, sent, gone, nextId, bad_help_thread_data,
                    inactive_help_thread_data, queue, h, now, ext, escaped,
                    flagged, forum, cog, checks >>

\* await partial_alert_message.delete(); discord.NotFound is passed over
InactiveDeleteAlert ==
    /\ sw.pc = "i_delete"
    /\ \E ok \in BOOLEAN :
         /\ fails' = IF ok THEN fails ELSE fails + 1
         /\ fails' <= MaxFailures
         \* ok and the message is there: deleted; ok and it is not: discord.NotFound,
         \* passed over; otherwise another discord.HTTPException is on its way up
         /\ gone' = IF ok /\ thr[sw.t].status = "live"
                    THEN gone \cup {sw.alert_message_id} ELSE gone
         /\ sw' = [sw EXCEPT !.raising = ~ok, !.pc = "i_save2"]
    /\ UNCHANGED << thr, audit, sent, nextId, bad_help_thread_data,
                    inactive_help_thread_data, queue, h, now, ext, escaped,
                    flagged, forum, cog, checks >>

\* a finally clause that saves nothing
SaveSkipped ==
    /\ sw.pc = "i_save2"
    /\ sw' = IF sw.raising THEN sweep_skip(sw) ELSE sweep_next_thread(sw)
    /\ UNCHANGED << thr, audit, sent, gone, nextId, bad_help_thread_data,
                    inactive_help_thread_data, queue, h, now, ext, escaped, flagged, forum, cog,
                    fails, checks >>

\* finally: await self.save_inactive_help_thread_data({thread_id, last message's time})
InactiveSaveCleared ==
    /\ sw.pc = "i_save2"
    /\ inactive_help_thread_data' =
         SaveRow(inactive_help_thread_data,
                 InactiveHelpThreadData(sw.t, sw.last_message_ts, None))
    /\ sw' = IF sw.raising THEN sweep_skip(sw) ELSE sweep_next_thread(sw)
    /\ UNCHANGED << thr, audit, sent, gone, nextId, bad_help_thread_data,
                    queue, h, now, ext, escaped, flagged, forum, cog, fails, checks >>

(* delete_help_threads_without_starter_message *)

\* help_thread_deletion_checks(thread), before its first statement
NewCheck(t) ==
    [t |-> t, pc |-> "k_history", member_msg_count |-> 0, warning |-> None,
     warned_at |-> 0, ended_at |-> 0, thread_gone |-> FALSE, result |-> ""]

\* help_thread.starter_message or await help_thread.fetch_message(help_thread.id);
\* only discord.NotFound is caught
OrphanStarter ==
    /\ sw.pc = "o_starter"
    /\ \E ok \in BOOLEAN :
         /\ fails' = IF ok THEN fails ELSE fails + 1
         /\ fails' <= MaxFailures
         /\ IF ~ok
            THEN /\ sw' = SweepCrashed(sw, "HTTPException")
                 /\ escaped' = escaped \cup {sw.kind}
                 /\ checks' = checks
            ELSE /\ sw' = sweep_next_thread(sw)
                 /\ escaped' = escaped
                 /\ checks' = IF thr[sw.t].starter = "gone"
                              THEN checks \cup {NewCheck(sw.t)}
                              ELSE checks
    /\ UNCHANGED << thr, audit, sent, gone, nextId, bad_help_thread_data,
                    inactive_help_thread_data, queue, h, now, ext, flagged, forum, cog >>

(* force_help_thread_archive_after_timeout *)

\* a sweep that edits nothing
no_archive_edits(th) == NoEdits

\* the edit that closes a thread after its inactivity timeout
archive_edits(th) ==
    LET e1 == IF /\ AnyTag(th.applied_tags, StartsWithSolved)
                 /\ th.slowmode_delay = ForumDefaults.default_thread_slowmode_delay
              THEN WithEdit(WithEdit(NoEdits, "archived", TRUE),
                            "slowmode_delay", SOLVED_SLOWMODE)
              ELSE WithEdit(NoEdits, "archived", TRUE)
    IN  IF ~HasOwnerMarker(th.name, OwnerId)
        THEN WithEdit(WithEdit(e1, "archived", FALSE),
                      "name", NameWithOwnerMarker(th.name, OwnerId))
        ELSE e1

\* last_active_ts = (await self.fetch_last_thread_activity_dt(help_thread)).timestamp()
ArchiveActivity ==
    /\ sw.pc = "f_activity"
    /\ \E out \in ActivityOutcomes :
         /\ fails' = IF out = "ok" THEN fails ELSE fails + 1
         /\ fails' <= MaxFailures
         /\ sw' = IF out = "raised" THEN sweep_skip(sw)
                  ELSE LET last_active_ts == fetch_last_thread_activity_dt(sw.t, out)
                       IN  IF (sw.now_ts - last_active_ts)
                                > 60 * thr[sw.t].auto_archive_duration
                           THEN [sw EXCEPT !.last_active_ts = last_active_ts,
                                           !.failed = (out # "ok"),
                                           !.edits = archive_edits(thr[sw.t]),
                                           !.pc = "f_edit"]
                           ELSE sweep_next_thread([sw EXCEPT !.failed = (out # "ok")])
    /\ UNCHANGED << thr, audit, sent, gone, nextId, bad_help_thread_data,
                    inactive_help_thread_data, queue, h, now, ext, escaped,
                    flagged, forum, cog, checks >>

\* await help_thread.edit(reason=..., **thread_edits)
ArchiveEdit ==
    /\ sw.pc = "f_edit"
    /\ \E ok \in BOOLEAN :
         /\ fails' = IF ok THEN fails ELSE fails + 1
         /\ fails' <= MaxFailures
         /\ IF ok /\ thr[sw.t].status = "live"
            THEN /\ BotEdit(sw.t, sw.edits)
                 /\ sw' = sweep_next_thread(sw)
            ELSE /\ ~ok
                 /\ UNCHANGED << thr, audit, queue >>
                 /\ sw' = sweep_skip(sw)
    /\ UNCHANGED << sent, gone, nextId, bad_help_thread_data,
                    inactive_help_thread_data, h, now, ext, escaped, flagged, forum, cog, checks >>

\* the pass is over; the loop waits for its next hour
SweepEnd ==
    /\ sw.pc = "done"
    /\ sw' = IdleSweep
    /\ UNCHANGED << thr, audit, sent, gone, nextId, bad_help_thread_data,
                    inactive_help_thread_data, queue, h, now, ext, escaped,
                    flagged, forum, cog, fails, checks >>

(***************************************************************************)
(* on_raw_thread_delete                                                    *)
(***************************************************************************)
\* if await self.inactive_help_thread_data_exists(payload.thread_id)
DeleteExists(s) ==
    /\ h[s].pc = "d_exists"
    /\ h' = [h EXCEPT ![s] = IF RowExists(inactive_help_thread_data, h[s].t)
                             THEN [h[s] EXCEPT !.pc = "d_delete"]
                             ELSE Finished(h[s])]
    /\ UNCHANGED << thr, audit, sent, gone, nextId, bad_help_thread_data,
                    inactive_help_thread_data, queue, now, ext, escaped, flagged, forum, cog, fails >>
    /\ UNCHANGED << sw, checks >>

\* await self.delete_inactive_help_thread_data(payload.thread_id)
DeleteInactive(s) ==
    /\ h[s].pc = "d_delete"
    /\ inactive_help_thread_data' = DeleteRows(inactive_help_thread_data, h[s].t)
    /\ h' = [h EXCEPT ![s] = Finished(h[s])]
    /\ UNCHANGED << thr, audit, sent, gone, nextId, bad_help_thread_data,
                    queue, now, ext, escaped, flagged, forum, cog, fails >>
    /\ UNCHANGED << sw, checks >>

(***************************************************************************)
(* on_raw_reaction_add, on_raw_reaction_remove.  Two messages of a post    *)
(* take reactions: its starter message, written by the owner, and a reply  *)
(* written by another member.  A message's reaction count is the number of *)
(* members whose reaction is on it.                                        *)
(***************************************************************************)
ReactionEvents == {"reaction_add", "reaction_remove"}

\* msg.author.id, msg.pinned, the members behind msg.reactions
AuthorOf(m) == IF m = "starter" THEN OwnerId ELSE HelperId
PinnedOf(th, m) == IF m = "starter" THEN th.starter = "pinned" ELSE th.reply_pinned
ReactorsOf(th, m) == IF m = "starter" THEN th.reactors ELSE th.reply_reactors
WithPinned(th, m, pinned) ==
    IF m = "starter" THEN [th EXCEPT !.starter = IF pinned THEN "pinned" ELSE "unpinned"]
    ELSE [th EXCEPT !.reply_pinned = pinned]
WithReactors(th, m, users) ==
    IF m = "starter" THEN [th EXCEPT !.reactors = users]
    ELSE [th EXCEPT !.reply_reactors = users]

\* member.guild_permissions.administrator
IsAdministrator(user_id) == user_id = ModId

\* a RawReactionActionEvent: payload.member is the reacting member when a reaction
\* is added, and None when one is removed
ReactionEvent(type, t, m, user_id) ==
    [type |-> type, t |-> t, before |-> thr[t], after |-> thr[t], actor |-> user_id,
     msg |-> m, member |-> IF type = "reaction_add" THEN user_id ELSE None]

\* by_op, by_admin
by_op(f) == f.actor = OwnerId
by_admin(f) == f.member # None /\ IsAdministrator(f.member)

\* on_raw_reaction_add without its lines 665-695
reaction_add_no_tags(f, th) == Finished(f)

\* on_raw_reaction_add, lines 665-695: the owner or an administrator marks the post
\* as solved through its starter message
reaction_add_tags(f, th) ==
    IF /\ f.msg = "starter"
       /\ (by_op(f) \/ by_admin(f))
       /\ th.applied_tags # << >>
       /\ ~AnyTag(th.applied_tags, LAMBDA tag : tag \in {"solved", "invalid"})
       /\ Len(th.applied_tags) < FORUM_THREAD_TAG_LIMIT
       /\ FirstTag(StartsWithSolved) # << >>
    THEN [f EXCEPT !.new_tags = SelectSeq(th.applied_tags, LAMBDA tag : tag # "unsolved")
                                   \o FirstTag(StartsWithSolved),
                   !.pc = "r_edit"]
    ELSE Finished(f)

\* on_raw_reaction_add, lines 629-663: pin, or take back the author's own reaction
reaction_add_after_fetch(f, th) ==
    IF ~th.flags_pinned
    THEN IF ~f.msg_pinned /\ (by_op(f) \/ by_admin(f))
         THEN [f EXCEPT !.pc = "r_pin"]
         ELSE IF f.actor = AuthorOf(f.msg) /\ f.msg # "starter"
         THEN [f EXCEPT !.pc = "r_unreact"]
         ELSE IF ~f.msg_pinned /\ (f.reaction_found /\ f.msg_count >= REACTION_PIN_COUNT)
         THEN [f EXCEPT !.pc = "r_pin"]
         ELSE reaction_add_tags(f, th)
    ELSE Finished(f)

\* on_raw_reaction_remove, lines 747-768: the post is not solved any more
reaction_remove_tags(f, th) ==
    IF /\ f.msg = "starter"
       /\ (by_op(f) \/ by_admin(f))
       /\ th.applied_tags # << >>
       /\ AnyTag(th.applied_tags, StartsWithSolved)
       /\ FirstTag(StartsWithSolved) # << >>
    THEN [f EXCEPT !.pc = "r_remove_tag"]
    ELSE Finished(f)

\* on_raw_reaction_remove, lines 731-745
reaction_remove_after_fetch(f, th) ==
    IF f.msg_pinned /\ (\/ ~f.reaction_found
                        \/ f.reaction_found /\ (\/ f.msg_count < REACTION_PIN_COUNT
                                                 \/ (f.msg_count < 2 /\ by_admin(f))))
    THEN [f EXCEPT !.pc = "r_unpin"]
    ELSE reaction_remove_tags(f, th)

\* white_check_mark_reaction = discord.utils.find(lambda r: isinstance(r.emoji,
\* discord.PartialEmoji) and is_emoji_equal(r.emoji, "✅"), msg.reactions): the
\* outcomes of the lookup on a message with so many white check marks.  The
\* reaction is found only where the library hands the emoji of a reaction over as
\* a PartialEmoji; where it hands a unicode emoji over as a str, as discord.py
\* does, the lookup finds nothing
ReactionLookups(count) == IF count > 0 THEN BOOLEAN ELSE {FALSE}

\* msg = await channel.fetch_message(payload.message_id)
ReactionFetch(s) ==
    /\ h[s].pc = "r_fetch"
    /\ LET f == h[s]
           th == thr[f.t]
       IN  \E ok \in BOOLEAN, found \in ReactionLookups(Cardinality(ReactorsOf(th, f.msg))) :
             IF ok /\ th.status = "live" /\ ~(f.msg = "starter" /\ th.starter = "gone")
             THEN LET f1 == [f EXCEPT !.msg_pinned = PinnedOf(th, f.msg),
                                      !.msg_count = Cardinality(ReactorsOf(th, f.msg)),
                                      !.reaction_found = found]
                  IN  h' = [h EXCEPT ![s] = IF f.op = "reaction_add"
                                            THEN reaction_add_after_fetch(f1, th)
                                            ELSE reaction_remove_after_fetch(f1, th)]
             ELSE /\ ~ok
                  /\ h' = [h EXCEPT ![s] = HttpFailed(f)]
    /\ UNCHANGED << thr, audit, sent, gone, nextId, bad_help_thread_data,
                    inactive_help_thread_data, queue, now, ext, escaped, flagged, forum, cog >>
    /\ CountFailure(s)
    /\ UNCHANGED << sw, checks >>

\* await msg.pin(reason=...)
ReactionPin(s) ==
    /\ h[s].pc = "r_pin"
    /\ LET f == h[s]
           t == f.t
       IN  \E ok \in BOOLEAN :
             IF ok /\ thr[t].status = "live" /\ ~(f.msg = "starter" /\ thr[t].starter = "gone")
             THEN /\ thr' = [thr EXCEPT ![t] = WithPinned(@, f.msg, TRUE)]
                  /\ h' = [h EXCEPT ![s] = reaction_add_tags(f, thr'[t])]
             ELSE /\ ~ok
                  /\ thr' = thr
                  /\ h' = [h EXCEPT ![s] = HttpFailed(f)]
    /\ UNCHANGED << audit, sent, gone, nextId, bad_help_thread_data,
                    inactive_help_thread_data, queue, now, ext, escaped, flagged, forum, cog >>
    /\ CountFailure(s)
    /\ UNCHANGED << sw, checks >>

\* await msg.remove_reaction("✅", msg.author); the gateway reports the removal
ReactionUnreact(s) ==
    /\ h[s].pc = "r_unreact"
    /\ LET f == h[s]
           t == f.t
       IN  \E ok \in BOOLEAN :
             IF ok /\ thr[t].status = "live"
             THEN /\ thr' = [thr EXCEPT ![t] =
                              WithReactors(@, f.msg, ReactorsOf(@, f.msg) \ {AuthorOf(f.msg)})]
                  /\ queue' = IF AuthorOf(f.msg) \in ReactorsOf(thr[t], f.msg)
                              THEN Append(queue, [ReactionEvent("reaction_remove", t, f.msg,
                                                                AuthorOf(f.msg))
                                                  EXCEPT !.before = thr'[t], !.after = thr'[t]])
                              ELSE queue
                  /\ h' = [h EXCEPT ![s] = reaction_add_tags(f, thr'[t])]
             ELSE /\ ~ok
                  /\ UNCHANGED << thr, queue >>
                  /\ h' = [h EXCEPT ![s] = HttpFailed(f)]
    /\ UNCHANGED << audit, sent, gone, nextId, bad_help_thread_data,
                    inactive_help_thread_data, now, ext, escaped, flagged, forum, cog >>
    /\ CountFailure(s)
    /\ UNCHANGED << sw, checks >>

\* await channel.edit(reason=..., applied_tags=new_tags)
ReactionEdit(s) ==
    /\ h[s].pc = "r_edit"
    /\ LET f == h[s]
           t == f.t
       IN  \E ok \in BOOLEAN :
             IF ok /\ thr[t].status = "live"
             THEN /\ BotEdit(t, WithEdit(NoEdits, "applied_tags", f.new_tags))
                  /\ h' = [h EXCEPT ![s] = Finished(f)]
             ELSE /\ ~ok
                  /\ UNCHANGED << thr, audit, queue >>
                  /\ h' = [h EXCEPT ![s] = HttpFailed(f)]
    /\ UNCHANGED << sent, gone, nextId, bad_help_thread_data,
                    inactive_help_thread_data, now, ext, escaped, flagged, forum, cog >>
    /\ CountFailure(s)
    /\ UNCHANGED << sw, checks >>

\* await msg.unpin(reason=...)
ReactionUnpin(s) ==
    /\ h[s].pc = "r_unpin"
    /\ LET f == h[s]
           t == f.t
       IN  \E ok \in BOOLEAN :
             IF ok /\ thr[t].status = "live" /\ ~(f.msg = "starter" /\ thr[t].starter = "gone")
             THEN /\ thr' = [thr EXCEPT ![t] = WithPinned(@, f.msg, FALSE)]
                  /\ h' = [h EXCEPT ![s] = reaction_remove_tags(f, thr'[t])]
             ELSE /\ ~ok
                  /\ thr' = thr
                  /\ h' = [h EXCEPT ![s] = HttpFailed(f)]
    /\ UNCHANGED << audit, sent, gone, nextId, bad_help_thread_data,
                    inactive_help_thread_data, queue, now, ext, escaped, flagged, forum, cog >>
    /\ CountFailure(s)
    /\ UNCHANGED << sw, checks >>

\* await msg.channel.remove_tags(tag, reason=...): the thread's tags without the
\* forum's solved tag
ReactionRemoveTag(s) ==
    /\ h[s].pc = "r_remove_tag"
    /\ LET f == h[s]
           t == f.t
       IN  \E ok \in BOOLEAN :
             IF ok /\ thr[t].status = "live"
             THEN /\ BotEdit(t, WithEdit(NoEdits, "applied_tags",
                              SelectSeq(thr[t].applied_tags,
                                  LAMBDA tag : << tag >> # FirstTag(StartsWithSolved))))
                  /\ h' = [h EXCEPT ![s] = Finished(f)]
             ELSE /\ ~ok
                  /\ UNCHANGED << thr, audit, queue >>
                  /\ h' = [h EXCEPT ![s] = HttpFailed(f)]
    /\ UNCHANGED << sent, gone, nextId, bad_help_thread_data,
                    inactive_help_thread_data, now, ext, escaped, flagged, forum, cog >>
    /\ CountFailure(s)
    /\ UNCHANGED << sw, checks >>

ReactionHandler(s) ==
    \/ ReactionFetch(s) \/ ReactionPin(s) \/ ReactionUnreact(s) \/ ReactionEdit(s)
    \/ ReactionUnpin(s) \/ ReactionRemoveTag(s)

(***************************************************************************)
(* help_thread_deletion_checks                                             *)
(***************************************************************************)
\* the messages of thread.history() that the loop counts, up to its break
CountMemberMessages(t) ==
    LET n == Cardinality({m \in Messages(t) : m.kind = "member"})
    IN  IF n >= THREAD_DELETION_MESSAGE_THRESHOLD
        THEN THREAD_DELETION_MESSAGE_THRESHOLD ELSE n

\* an except clause that only catches discord.Forbidden
check_except_forbidden(exc) == exc = "Forbidden"

\* except discord.HTTPException: pass.  NotFound and Forbidden are its subclasses
check_except(exc) == exc \in {"HTTPException", "NotFound", "Forbidden"}

\* the coroutine ends with an exception, caught or not
CheckRaised(k, exc) ==
    /\ checks' = (checks \ {k}) \cup {[k EXCEPT !.pc = "done", !.result = exc,
                                                !.ended_at = now,
                                                !.thread_gone = thr[k.t].status # "live"]}
    /\ escaped' = IF check_except(exc) THEN escaped
                  ELSE escaped \cup {"help_thread_deletion_checks"}

\* async for thread_message in thread.history(...): count; then the comparison
CheckHistory(k) ==
    /\ k \in checks /\ k.pc = "k_history"
    /\ \E ok \in BOOLEAN :
         /\ fails' = IF ok \/ thr[k.t].status # "live" THEN fails ELSE fails + 1
         /\ fails' <= MaxFailures
         /\ IF thr[k.t].status # "live" THEN CheckRaised(k, "NotFound")
            ELSE IF ~ok THEN CheckRaised(k, "HTTPException")
            ELSE LET n == CountMemberMessages(k.t)
                 IN  /\ checks' = (checks \ {k}) \cup
                           {IF n < THREAD_DELETION_MESSAGE_THRESHOLD
                            THEN [k EXCEPT !.member_msg_count = n, !.pc = "k_warn"]
                            ELSE [k EXCEPT !.member_msg_count = n, !.pc = "done",
                                           !.result = "kept", !.ended_at = now]}
                     /\ escaped' = escaped
    /\ UNCHANGED << thr, audit, sent, gone, nextId, bad_help_thread_data,
                    inactive_help_thread_data, queue, h, sw, now, ext, flagged, forum, cog >>

\* await thread.send(embed="Post scheduled for deletion")
CheckWarn(k) ==
    /\ k \in checks /\ k.pc = "k_warn"
    /\ \E ok \in BOOLEAN :
         /\ fails' = IF ok \/ thr[k.t].status # "live" THEN fails ELSE fails + 1
         /\ fails' <= MaxFailures
         /\ IF thr[k.t].status # "live"
            THEN CheckRaised(k, "NotFound") /\ UNCHANGED << sent, nextId >>
            ELSE IF ~ok
            THEN CheckRaised(k, "HTTPException") /\ UNCHANGED << sent, nextId >>
            ELSE /\ SendMessage(k.t, "deletion_warning")
                 /\ checks' = (checks \ {k}) \cup
                       {[k EXCEPT !.warning = nextId, !.warned_at = now, !.pc = "k_sleep"]}
                 /\ escaped' = escaped
    /\ UNCHANGED << thr, audit, gone, bad_help_thread_data,
                    inactive_help_thread_data, queue, h, sw, now, ext, flagged, forum, cog >>

\* await asyncio.sleep(300): the coroutine goes on when the clock has advanced
CheckSleep(k) ==
    /\ k \in checks /\ k.pc = "k_sleep"
    /\ now' = IF now < k.warned_at + DELETION_WAIT THEN k.warned_at + DELETION_WAIT ELSE now
    /\ checks' = (checks \ {k}) \cup {[k EXCEPT !.pc = "k_delete"]}
    /\ UNCHANGED << thr, audit, sent, gone, nextId, bad_help_thread_data,
                    inactive_help_thread_data, queue, h, sw, ext, escaped, flagged, forum, cog, fails >>

\* await thread.delete()
CheckDelete(k) ==
    /\ k \in checks /\ k.pc = "k_delete"
    /\ \E ok \in BOOLEAN :
         /\ fails' = IF ok \/ thr[k.t].status # "live" THEN fails ELSE fails + 1
         /\ fails' <= MaxFailures
         /\ IF thr[k.t].status # "live"
            THEN CheckRaised(k, "NotFound") /\ UNCHANGED << thr, queue >>
            ELSE IF ~ok
            THEN CheckRaised(k, "HTTPException") /\ UNCHANGED << thr, queue >>
            ELSE /\ thr' = [thr EXCEPT ![k.t].status = "deleted"]
                 /\ queue' = Append(queue,
                                Event("raw_thread_delete", k.t, thr[k.t], thr[k.t], BotId))
                 /\ checks' = (checks \ {k}) \cup
                       {[k EXCEPT !.pc = "done", !.result = "deleted", !.ended_at = now]}
                 /\ escaped' = escaped
    /\ UNCHANGED << audit, sent, gone, nextId, bad_help_thread_data,
                    inactive_help_thread_data, h, sw, now, ext, flagged, forum, cog >>

(***************************************************************************)
(* More external events.                                                   *)
(***************************************************************************)
\* a member puts a white check mark on a message of a post, or takes it back
ReactionAdd(t, m, user_id) ==
    /\ ext < MaxExternal
    /\ thr[t].status = "live"
    /\ ~(m = "starter" /\ thr[t].starter = "gone")
    /\ user_id \notin ReactorsOf(thr[t], m)
    /\ thr' = [thr EXCEPT ![t] = WithReactors(@, m, ReactorsOf(@, m) \cup {user_id})]
    /\ queue' = Append(queue, [ReactionEvent("reaction_add", t, m, user_id)
                                EXCEPT !.before = thr'[t], !.after = thr'[t]])
    /\ ext' = ext + 1
    /\ UNCHANGED << audit, sent, gone, nextId, bad_help_thread_data,
                    inactive_help_thread_data, h, now, escaped, flagged, forum, cog, fails >>
    /\ UNCHANGED << sw, checks >>

ReactionRemove(t, m, user_id) ==
    /\ ext < MaxExternal
    /\ thr[t].status = "live"
    /\ ~(m = "starter" /\ thr[t].starter = "gone")
    /\ user_id \in ReactorsOf(thr[t], m)
    /\ thr' = [thr EXCEPT ![t] = WithReactors(@, m, ReactorsOf(@, m) \ {user_id})]
    /\ queue' = Append(queue, [ReactionEvent("reaction_remove", t, m, user_id)
                                EXCEPT !.before = thr'[t], !.after = thr'[t]])
    /\ ext' = ext + 1
    /\ UNCHANGED << audit, sent, gone, nextId, bad_help_thread_data,
                    inactive_help_thread_data, h, now, escaped, flagged, forum, cog, fails >>
    /\ UNCHANGED << sw, checks >>

\* on_message_delete: the owner deletes the starter message of a post that the
\* client has cached, and the handler awaits help_thread_deletion_checks
OnMessageDelete(t) ==
    /\ ext < MaxExternal
    /\ thr[t].status = "live"
    /\ thr[t].starter # "gone"
    /\ thr' = [thr EXCEPT ![t].starter = "gone"]
    /\ checks' = checks \cup {NewCheck(t)}
    /\ ext' = ext + 1
    /\ UNCHANGED << audit, sent, gone, nextId, bad_help_thread_data,
                    inactive_help_thread_data, queue, h, now, escaped, flagged, forum, cog, fails >>
    /\ UNCHANGED sw

\* a member writes into a post
MemberMessage(t) ==
    /\ ext < MaxExternal
    /\ thr[t].status = "live"
    /\ ~thr[t].archived /\ ~thr[t].locked
    /\ SendMessage(t, "member")
    /\ ext' = ext + 1
    /\ UNCHANGED << thr, audit, gone, bad_help_thread_data,
                    inactive_help_thread_data, queue, h, now, escaped, flagged, forum, cog, fails >>
    /\ UNCHANGED << sw, checks >>

\* the starter message of a post is deleted while the client does not have it cached:
\* no on_message_delete is dispatched
StarterDeleted(t) ==
    /\ ext < MaxExternal
    /\ thr[t].status = "live"
    /\ thr[t].starter # "gone"
    /\ thr' = [thr EXCEPT ![t].starter = "gone"]
    /\ ext' = ext + 1
    /\ UNCHANGED << audit, sent, gone, nextId, bad_help_thread_data,
                    inactive_help_thread_data, queue, h, now, escaped, flagged, forum, cog, fails >>
    /\ UNCHANGED << sw, checks >>

\* a moderator removes the inactivity alert of a post
AlertRemoved(t) ==
    /\ ext < MaxExternal
    /\ thr[t].status = "live"
    /\ \E m \in Messages(t) : m.kind = "inactive_alert" /\ gone' = gone \cup {m.id}
    /\ ext' = ext + 1
    /\ UNCHANGED << thr, audit, sent, nextId, bad_help_thread_data,
                    inactive_help_thread_data, queue, h, now, escaped, flagged, forum, cog, fails >>
    /\ UNCHANGED << sw, checks >>

\* a moderator deletes a post
DeleteThread(t) ==
    /\ ext < MaxExternal
    /\ thr[t].status = "live"
    /\ thr' = [thr EXCEPT ![t].status = "deleted"]
    /\ queue' = Append(queue, Event("raw_thread_delete", t, thr[t], thr[t], ModId))
    /\ ext' = ext + 1
    /\ UNCHANGED << audit, sent, gone, nextId, bad_help_thread_data,
                    inactive_help_thread_data, h, now, escaped, flagged, forum, cog, fails >>
    /\ UNCHANGED << sw, checks >>

(***************************************************************************)
(* Dispatch: the client starts the handler of the oldest waiting event in  *)
(* the lowest free slot; a finished handler frees its slot.                *)
(***************************************************************************)
FreeSlot(s) == h[s].pc = "idle" /\ \A s2 \in Slots : s2 < s => h[s2].pc # "idle"

Dispatch(s) ==
    /\ queue # << >>
    /\ FreeSlot(s)
    /\ LET ev == Head(queue)
           f == [IdleFrame EXCEPT !.op = ev.type, !.t = ev.t, !.before = ev.before,
                    !.after0 = ev.after, !.actor = ev.actor,
                    !.bad0 = FetchRows(bad_help_thread_data, ev.t),
                    !.inactive0 = FetchRows(inactive_help_thread_data, ev.t),
                    !.id0 = nextId,
                    !.msg = IF ev.type \in ReactionEvents THEN ev.msg ELSE "none",
                    !.member = IF ev.type \in ReactionEvents THEN ev.member ELSE None]
       IN  h' = [h EXCEPT ![s] =
                   CASE ev.type = "thread_create" -> [f EXCEPT !.pc = "c_pin"]
                     [] ev.type = "thread_update" -> on_thread_update_start(f, thr[ev.t])
                     [] ev.type \in ReactionEvents -> [f EXCEPT !.pc = "r_fetch"]
                     [] OTHER -> [f EXCEPT !.pc = "d_exists"]]
    /\ queue' = Tail(queue)
    /\ UNCHANGED << thr, audit, sent, gone, nextId, bad_help_thread_data,
                    inactive_help_thread_data, sw, checks, now, ext, escaped,
                    flagged, forum, cog, fails >>

Finish(s) ==
    /\ h[s].pc = "done"
    /\ h' = [h EXCEPT ![s] = IdleFrame]
    /\ LET f == h[s]
       IN  flagged' = [flagged EXCEPT ![f.t] =
              IF f.op = "thread_create"
              THEN (IF f.result = "ok" /\ f.issues_found THEN "flagged" ELSE "other")
              ELSE IF f.op = "thread_update" /\ f.actor = BotId /\ f.result = "ok"
                   THEN @ ELSE "other"]
    /\ UNCHANGED << thr, audit, sent, gone, nextId, bad_help_thread_data,
                    inactive_help_thread_data, queue, now, ext, escaped, fails >>
    /\ UNCHANGED << sw, checks, forum, cog >>

CreateHandler(s) ==
    \/ CreatePin(s) \/ CreateCautionName(s) \/ CreateCautionTags(s)
    \/ CreateExists(s) \/ CreateSave(s) \/ CreateEdit(s)

UpdateHandler(s) ==
    \/ UpdateAudit(s) \/ UpdateCautionName(s) \/ UpdateCautionTags(s)
    \/ UpdateExistsBad(s) \/ UpdateSaveNew(s) \/ UpdateFetchBad(s) \/ UpdateSaveUnion(s)
    \/ UpdateExistsResolved(s) \/ UpdateFetchResolved(s) \/ UpdateDeleteCaution(s)
    \/ UpdateDeleteBad(s)
    \/ UpdateSolvedAlert(s) \/ UpdateExistsInactive(s) \/ UpdateFetchInactive(s)
    \/ UpdateDeleteAlert(s) \/ UpdateDeleteInactive(s)
    \/ UpdateSleep(s) \/ UpdateEdit(s) \/ UpdateUnarchive(s) \/ UpdateRearchive(s)

DeleteHandler(s) == DeleteExists(s) \/ DeleteInactive(s)

Handler(s) == CreateHandler(s) \/ UpdateHandler(s) \/ DeleteHandler(s) \/ Finish(s)

SweepKinds == {"inactive", "orphans", "archive"}

SweepStep ==
    \/ SweepList
    \/ InactiveActivity \/ InactiveExists \/ InactiveFetch \/ InactiveSend
    \/ InactiveSave \/ InactiveExistsRecent \/ InactiveFetchRecent
    \/ InactiveLastMessage \/ InactiveDeleteAlert \/ InactiveSaveCleared
    \/ OrphanStarter
    \/ ArchiveActivity \/ ArchiveEdit
    \/ SweepEnd

(***************************************************************************)
(* Spec: events are handled one after the other; a sweep runs between them.*)
(***************************************************************************)
Calm == Quiet /\ sw.pc = "idle"

Next ==
    \/ \E t \in Posts, fid \in {ForumIds[i] : i \in 1..Len(ForumIds)},
          name \in UserNames, tags \in UserTags :
             Calm /\ CreateThread(t, fid, name, tags)
    \/ \E t \in Posts :
          \E name \in UserNames \cup {thr[t].name},
             tags \in UserTags \cup {thr[t].applied_tags},
             locked \in BOOLEAN : Calm /\ UserEdit(t, name, tags, locked)
    \/ \E t \in Posts, archived \in BOOLEAN : Calm /\ UserArchive(t, archived)
    \/ \E t \in Posts : Calm /\ MemberMessage(t)
    \/ \E t \in Posts : Calm /\ StarterDeleted(t)
    \/ \E t \in Posts : Calm /\ DeleteThread(t)
    \/ Calm /\ Tick
    \/ \E kind \in SweepKinds : Calm /\ StartSweep(kind)
    \/ SweepStep
    \/ sw.pc = "idle" /\ (\A s \in Slots : h[s].pc = "idle") /\ Dispatch(1)
    \/ Handler(1)

Spec == Init /\ [][Next]_vars

(***************************************************************************)
(* SpecC: the client runs handlers concurrently.  Two handlers interleave  *)
(* at their awaits, and members keep editing while handlers run.  It       *)
(* starts where Spec gets to after a post titled "HELP" was opened in the  *)
(* regulars forum, was cautioned and, a day later, alerted for inactivity. *)
(***************************************************************************)
FlaggedPost ==
    [NoThread EXCEPT !.status = "live", !.parent_id = HELP_FORUM_CHANNEL_IDS.regulars,
        !.name = NameWithOwnerMarker(<< "H", "E", "L", "P" >>, OwnerId),
        !.applied_tags = << "unsolved" >>,
        !.slowmode_delay = THREAD_TITLE_TOO_SHORT_SLOWMODE_DELAY,
        !.auto_archive_duration = ForumDefaults.default_auto_archive_duration,
        !.starter = "pinned"]

FlaggedState ==
    /\ forum = UsualDefaults
    /\ cog = IdleCog
    /\ thr = [t \in Threads |-> IF t = OldPost THEN LockedOldPost ELSE FlaggedPost]
    /\ audit = [t \in Threads |-> IF t = OldPost THEN None ELSE BotId]
    /\ sent = {[id |-> 1, thread |-> 1001, kind |-> "caution", created_at |-> 1],
               [id |-> 2, thread |-> 1001, kind |-> "caution", created_at |-> 2],
               [id |-> 3, thread |-> 1001, kind |-> "inactive_alert",
                created_at |-> DAY + 3]}
    /\ gone = {}
    /\ nextId = 4
    /\ bad_help_thread_data = {BadHelpThreadData(1001, 0, {1, 2})}
    /\ inactive_help_thread_data = {InactiveHelpThreadData(1001, DAY + 3, 3)}
    /\ queue = << >>
    /\ h = [s \in Slots |-> IdleFrame]
    /\ sw = IdleSweep
    /\ checks = {}
    /\ now = DAY
    /\ escaped = {}
    /\ flagged = [t \in Threads |-> IF t = OldPost THEN "new" ELSE "flagged"]

\* two more external events
InitC == FlaggedState /\ ext = MaxExternal - 2 /\ fails = 0

\* the edits that members make in SpecC: a title with a caution or a title without,
\* a tag set that fails validation or one that marks the post as solved
NamesC == {<< "H", "E", "L", "P", " ", "M", "E" >>,
           << "f", "i", "x", " ", "m", "y", " ", "b", "u", "g" >>}
TagsC == {<< "physics" >>, << "issue: bug", "physics", "solved" >>}

NextC ==
    \/ \E t \in Posts :
          \E name \in NamesC \cup {thr[t].name},
             tags \in TagsC \cup {thr[t].applied_tags} :
                UserEdit(t, name, tags, FALSE)
    \/ \E t \in Posts, archived \in BOOLEAN : UserArchive(t, archived)
    \/ \E t \in Posts : DeleteThread(t)
    \/ \E s \in Slots : Dispatch(s)
    \/ \E s \in Slots : UpdateHandler(s) \/ DeleteHandler(s) \/ Finish(s)

SpecC == InitC /\ [][NextC]_vars

(***************************************************************************)
(* SpecG: a post is renamed while on_thread_create is still running.  A    *)
(* member opens a post titled "HELP" and renames it; the two handlers      *)
(* interleave at their awaits and every request is answered.               *)
(***************************************************************************)
InitG ==
    /\ forum = UsualDefaults
    /\ cog = IdleCog
    /\ thr = [t \in Threads |-> IF t = OldPost THEN LockedOldPost ELSE NoThread]
    /\ audit = [t \in Threads |-> None]
    /\ sent = {}
    /\ gone = {}
    /\ nextId = 1
    /\ bad_help_thread_data = {}
    /\ inactive_help_thread_data = {}
    /\ queue = << >>
    /\ h = [s \in Slots |-> IdleFrame]
    /\ now = 0
    /\ ext = MaxExternal - 2
    /\ escaped = {}
    /\ fails = MaxFailures
    /\ sw = IdleSweep
    /\ checks = {}
    /\ flagged = [t \in Threads |-> "new"]

TagsG == {<< "physics" >>, << "issue: bug", "physics" >>}

NextG ==
    \/ \E t \in Posts, fid \in {ForumIds[i] : i \in 1..Len(ForumIds)}, tags \in TagsG :
          CreateThread(t, fid, << "H", "E", "L", "P" >>, tags)
    \/ \E t \in Posts, name \in NamesC : UserEdit(t, name, thr[t].applied_tags, FALSE)
    \/ \E s \in Slots : Dispatch(s)
    \/ \E s \in Slots : CreateHandler(s)
    \/ \E s \in Slots :
          \/ UpdateAudit(s) \/ UpdateCautionName(s)
          \/ UpdateExistsBad(s) \/ UpdateSaveNew(s) \/ UpdateFetchBad(s) \/ UpdateSaveUnion(s)
          \/ UpdateExistsResolved(s) \/ UpdateFetchResolved(s) \/ UpdateDeleteCaution(s)
          \/ UpdateDeleteBad(s)
          \/ UpdateSleep(s) \/ UpdateEdit(s)
    \/ \E s \in Slots : Finish(s)

SpecG == InitG /\ [][NextG]_vars

(***************************************************************************)
(* SpecS: the inactivity sweep after the alert.  It starts where SpecC     *)
(* starts; members write into the post, moderators remove the alert, lock  *)
(* or delete the post, time passes, and the sweep runs between the events. *)
(* SpecD is SpecS with the events arriving while a sweep is under way.     *)
(***************************************************************************)
InitS == FlaggedState /\ ext = MaxExternal - 3 /\ fails = 0

InactiveSweepStep ==
    \/ SweepList
    \/ InactiveActivity \/ InactiveExists \/ InactiveFetch \/ InactiveSend
    \/ InactiveSave \/ InactiveExistsRecent \/ InactiveFetchRecent
    \/ InactiveLastMessage \/ InactiveDeleteAlert \/ InactiveSaveCleared
    \/ SweepEnd

NextS ==
    \/ \E t \in Posts : Calm /\ MemberMessage(t)
    \/ \E t \in Posts : Calm /\ AlertRemoved(t)
    \/ \E t \in Posts : Calm /\ UserEdit(t, thr[t].name, thr[t].applied_tags, TRUE)
    \/ \E t \in Posts : Calm /\ DeleteThread(t)
    \/ Calm /\ Tick
    \/ Calm /\ StartSweep("inactive")
    \/ InactiveSweepStep
    \/ sw.pc = "idle" /\ (\A s \in Slots : h[s].pc = "idle") /\ Dispatch(1)
    \/ DeleteHandler(1) \/ Finish(1)

SpecS == InitS /\ [][NextS]_vars

NextD ==
    \/ \E t \in Posts : MemberMessage(t)
    \/ \E t \in Posts : AlertRemoved(t)
    \/ \E t \in Posts : UserEdit(t, thr[t].name, thr[t].applied_tags, TRUE)
    \/ \E t \in Posts : DeleteThread(t)
    \/ Tick
    \/ StartSweep("inactive")
    \/ InactiveSweepStep
    \/ (\A s \in Slots : h[s].pc = "idle") /\ Dispatch(1)
    \/ DeleteHandler(1) \/ Finish(1)

SpecD == InitS /\ [][NextD]_vars

(***************************************************************************)
(* SpecT: the solved tag comes and goes.  Members edit titles and tags,    *)
(* and archive and reopen the post; every update is handled before the     *)
(* next edit.  It starts either after the alert, as SpecS does, or with a  *)
(* solved post that the archive-timeout sweep had closed with the slowmode *)
(* of solved posts and that its owner has reopened.                        *)
(***************************************************************************)
ReopenedSolvedPost ==
    [FlaggedPost EXCEPT
        !.name = NameWithOwnerMarker(<< "f", "i", "x", " ", "m", "y", " ", "b", "u", "g" >>,
                                     OwnerId),
        !.applied_tags = << "issue: bug", "physics", "solved" >>,
        !.slowmode_delay = SOLVED_SLOWMODE,
        !.auto_archive_duration = SOLVED_AUTO_ARCHIVE]

ReopenedState ==
    /\ forum = UsualDefaults
    /\ cog = IdleCog
    /\ thr = [t \in Threads |-> IF t = OldPost THEN LockedOldPost ELSE ReopenedSolvedPost]
    /\ audit = [t \in Threads |-> IF t = OldPost THEN None ELSE OwnerId]
    /\ sent = {[id |-> 1, thread |-> 1001, kind |-> "solved_alert", created_at |-> 1]}
    /\ gone = {}
    /\ nextId = 4
    /\ bad_help_thread_data = {}
    /\ inactive_help_thread_data = {}
    /\ queue = << >>
    /\ h = [s \in Slots |-> IdleFrame]
    /\ sw = IdleSweep
    /\ checks = {}
    /\ now = DAY
    /\ escaped = {}
    /\ flagged = [t \in Threads |-> "new"]

InitT == (FlaggedState \/ ReopenedState) /\ ext = MaxExternal - 3 /\ fails = 0

\* the tag sets that members choose in SpecT: one that fails the validation, valid
\* ones with and without the solved tag, one that still holds the unsolved tag, and
\* one that fills every tag slot
TagsT == { << "physics" >>,
           << "issue: bug", "physics" >>,
           << "issue: bug", "physics", "solved" >>,
           << "unsolved", "issue: bug", "solved" >>,
           << "invalid", "physics", "audio", "draw", "input" >> }

NextT ==
    \/ \E t \in Posts :
          \E name \in NamesC \cup {thr[t].name},
             tags \in TagsT \cup {thr[t].applied_tags} :
                Calm /\ UserEdit(t, name, tags, FALSE)
    \/ \E t \in Posts, archived \in BOOLEAN : Calm /\ UserArchive(t, archived)
    \/ (\A s \in Slots : h[s].pc = "idle") /\ Dispatch(1)
    \/ UpdateHandler(1) \/ Finish(1)

SpecT == InitT /\ [][NextT]_vars

(***************************************************************************)
(* SpecR: white check marks.  The owner, an administrator, the author of   *)
(* the reply and two more members put white check marks on the starter     *)
(* message and on the reply of a post and take them back; a moderator pins *)
(* the post in its forum.  Two members have reacted to both messages       *)
(* before.                                                                 *)
(***************************************************************************)
Reactors == {OwnerId, ModId, HelperId, MemberA, MemberB}
ReactedMessages == {"starter", "reply"}

\* the tags of the post when the reactions start
TagsR == { << >>,
           << "issue: bug", "physics" >>,
           << "unsolved", "issue: bug", "physics" >>,
           << "issue: bug", "physics", "solved" >>,
           << "issue: bug", "physics", "audio", "draw", "input" >> }

ReactedPost ==
    [FlaggedPost EXCEPT
        !.name = NameWithOwnerMarker(<< "f", "i", "x", " ", "m", "y", " ", "b", "u", "g" >>,
                                     OwnerId),
        !.slowmode_delay = ForumDefaults.default_thread_slowmode_delay,
        !.reactors = {MemberA, MemberB}, !.reply_reactors = {MemberA, MemberB}]

InitR ==
    /\ forum = UsualDefaults
    /\ cog = IdleCog
    /\ \E tags \in TagsR, pinned \in BOOLEAN, extra \in SUBSET {OwnerId, ModId, HelperId} :
          thr = [t \in Threads |->
                   IF t = OldPost THEN LockedOldPost
                   ELSE [ReactedPost EXCEPT
                           !.applied_tags = tags,
                           !.starter = IF pinned THEN "pinned" ELSE "unpinned",
                           !.reply_pinned = pinned,
                           !.reactors = @ \cup extra,
                           !.reply_reactors = @ \cup extra]]
    /\ audit = [t \in Threads |-> IF t = OldPost THEN None ELSE OwnerId]
    /\ sent = {}
    /\ gone = {}
    /\ nextId = 1
    /\ bad_help_thread_data = {}
    /\ inactive_help_thread_data = {}
    /\ queue = << >>
    /\ h = [s \in Slots |-> IdleFrame]
    /\ sw = IdleSweep
    /\ checks = {}
    /\ now = DAY
    /\ escaped = {}
    /\ flagged = [t \in Threads |-> "new"]
    /\ ext = MaxExternal - 2
    /\ fails = 0

\* a moderator pins the post in its forum, or unpins it
PinThread(t, pinned) ==
    /\ ext < MaxExternal
    /\ thr[t].status = "live"
    /\ thr[t].flags_pinned # pinned
    /\ thr' = [thr EXCEPT ![t].flags_pinned = pinned]
    /\ audit' = [audit EXCEPT ![t] = ModId]
    /\ queue' = Append(queue, Event("thread_update", t, thr[t], thr'[t], ModId))
    /\ ext' = ext + 1
    /\ UNCHANGED << sent, gone, nextId, bad_help_thread_data,
                    inactive_help_thread_data, h, now, escaped, flagged, forum, cog, fails >>
    /\ UNCHANGED << sw, checks >>

NextR ==
    \/ \E t \in Posts, m \in ReactedMessages, user_id \in Reactors :
          Calm /\ ReactionAdd(t, m, user_id)
    \/ \E t \in Posts, m \in ReactedMessages, user_id \in Reactors :
          Calm /\ ReactionRemove(t, m, user_id)
    \/ \E t \in Posts, pinned \in BOOLEAN : Calm /\ PinThread(t, pinned)
    \/ (\A s \in Slots : h[s].pc = "idle") /\ Dispatch(1)
    \/ ReactionHandler(1)
    \* on_thread_update on the bot's tag edits: the steps that a post without
    \* cautions and without an inactivity alert goes through
    \/ UpdateAudit(1) \/ UpdateExistsResolved(1) \/ UpdateSolvedAlert(1)
    \/ UpdateExistsInactive(1) \/ UpdateSleep(1) \/ UpdateEdit(1)
    \/ Finish(1)

SpecR == InitR /\ [][NextR]_vars

(***************************************************************************)
(* SpecK: posts that lost their starter message.  Members write, the owner *)
(* deletes the starter message, a moderator deletes the post, and the      *)
(* coroutines of help_thread_deletion_checks run beside all of that.  The  *)
(* hourly pass that looks for posts without starter message runs when the  *)
(* coroutines of the hour before have ended.                               *)
(***************************************************************************)
NextK ==
    \/ \E t \in Posts : sw.pc = "idle" /\ MemberMessage(t)
    \/ \E t \in Posts : sw.pc = "idle" /\ StarterDeleted(t)
    \/ \E t \in Posts : sw.pc = "idle" /\ OnMessageDelete(t)
    \/ \E t \in Posts : sw.pc = "idle" /\ DeleteThread(t)
    \/ Quiet /\ (\A k \in checks : k.pc = "done") /\ StartSweep("orphans")
    \/ SweepList \/ OrphanStarter \/ SweepEnd
    \/ \E k \in checks : CheckHistory(k)
    \/ \E k \in checks : CheckWarn(k)
    \/ \E k \in checks : CheckSleep(k)
    \/ \E k \in checks : CheckDelete(k)
    \/ (\A s \in Slots : h[s].pc = "idle") /\ Dispatch(1)
    \/ DeleteHandler(1) \/ Finish(1)

SpecK == InitS /\ [][NextK]_vars

(***************************************************************************)
(* SpecL: what one event sets off.  The help forums have one of several    *)
(* settings; a post is opened, or an open or a solved post is edited,      *)
(* marked with a white check mark or closed, once; then the bot handles    *)
(* the event and the events that its own edits cause, one after the other. *)
(* The event loop runs every handler that can go on.                       *)
(***************************************************************************)
\* the slowmode and the archive duration of solved posts among the defaults
ForumSettings ==
    {[default_thread_slowmode_delay |-> d, default_auto_archive_duration |-> a] :
        d \in {0, SOLVED_SLOWMODE}, a \in {SOLVED_AUTO_ARCHIVE, 1440}}

OpenPost(settings) ==
    [FlaggedPost EXCEPT
        !.name = NameWithOwnerMarker(<< "f", "i", "x", " ", "m", "y", " ", "b", "u", "g" >>,
                                     OwnerId),
        !.applied_tags = << "unsolved", "issue: bug", "physics" >>,
        !.reactors = {MemberA},
        !.slowmode_delay = settings.default_thread_slowmode_delay,
        !.auto_archive_duration = settings.default_auto_archive_duration]

SolvedPost(settings) ==
    [OpenPost(settings) EXCEPT
        !.applied_tags = << "issue: bug", "physics", "solved" >>,
        !.reactors = {OwnerId, MemberA},
        !.auto_archive_duration = SOLVED_AUTO_ARCHIVE]

InitL ==
    /\ forum \in ForumSettings
    /\ cog = IdleCog
    /\ \E post \in {NoThread, OpenPost(forum), SolvedPost(forum)} :
          /\ thr = [t \in Threads |-> IF t = OldPost THEN LockedOldPost ELSE post]
          /\ audit = [t \in Threads |->
                        IF t = OldPost \/ post = NoThread THEN None ELSE OwnerId]
    /\ sent = {}
    /\ gone = {}
    /\ nextId = 1
    /\ bad_help_thread_data = {}
    /\ inactive_help_thread_data = {}
    /\ queue = << >>
    /\ h = [s \in Slots |-> IdleFrame]
    /\ sw = IdleSweep
    /\ checks = {}
    /\ now = DAY
    /\ escaped = {}
    /\ flagged = [t \in Threads |-> "new"]
    /\ ext = MaxExternal - 1
    /\ fails = MaxFailures

\* the steps of the handlers that edit a thread
EditStepL(s) ==
    \/ CreateEdit(s) \/ UpdateEdit(s) \/ UpdateUnarchive(s) \/ UpdateRearchive(s)
    \/ ReactionEdit(s) \/ ReactionRemoveTag(s)

\* the other steps of the handlers
OtherStepL(s) ==
    \/ CreatePin(s) \/ CreateCautionName(s) \/ CreateCautionTags(s)
    \/ CreateExists(s) \/ CreateSave(s)
    \/ UpdateAudit(s) \/ UpdateCautionName(s) \/ UpdateCautionTags(s)
    \/ UpdateExistsBad(s) \/ UpdateSaveNew(s) \/ UpdateFetchBad(s) \/ UpdateSaveUnion(s)
    \/ UpdateExistsResolved(s) \/ UpdateSolvedAlert(s) \/ UpdateExistsInactive(s)
    \/ UpdateSleep(s)
    \/ ReactionFetch(s) \/ ReactionUnpin(s)

\* the client starts the handler of an event when the event arrives: before the
\* next event arrives, and so before a running handler's next edit is answered
BotStepL ==
    \/ \E s \in Slots : Dispatch(s)
    \/ \E s \in Slots : queue = << >> /\ EditStepL(s)
    \/ \E s \in Slots : OtherStepL(s)
    \/ \E s \in Slots : Finish(s)

NextL ==
    \/ \E t \in Posts, fid \in {ForumIds[i] : i \in 1..Len(ForumIds)},
          name \in NamesC, tags \in TagsT :
             queue = << >> /\ CreateThread(t, fid, name, tags)
    \/ \E t \in Posts :
          \E name \in NamesC \cup {thr[t].name},
             tags \in TagsT \cup {thr[t].applied_tags} :
                queue = << >> /\ UserEdit(t, name, tags, FALSE)
    \/ \E t \in Posts, archived \in BOOLEAN : queue = << >> /\ UserArchive(t, archived)
    \/ \E t \in Posts, user_id \in {OwnerId, MemberA} :
          queue = << >> /\ ReactionAdd(t, "starter", user_id)
    \/ \E t \in Posts, user_id \in {OwnerId, MemberA} :
          queue = << >> /\ ReactionRemove(t, "starter", user_id)
    \/ BotStepL

SpecL == InitL /\ [][NextL]_vars /\ WF_vars(BotStepL)

(***************************************************************************)
(* SpecA: the inactivity sweep from the first alert on.  It starts with an *)
(* open post that nobody has written into for a day and that has no        *)
(* record; the events and the sweep are those of SpecS.                    *)
(***************************************************************************)
InitA ==
    /\ forum = UsualDefaults
    /\ cog = IdleCog
    /\ thr = [t \in Threads |-> IF t = OldPost THEN LockedOldPost
                                ELSE [OpenPost(forum) EXCEPT !.reactors = {}]]
    /\ audit = [t \in Threads |-> IF t = OldPost THEN None ELSE BotId]
    /\ sent = {}
    /\ gone = {}
    /\ nextId = 1
    /\ bad_help_thread_data = {}
    /\ inactive_help_thread_data = {}
    /\ queue = << >>
    /\ h = [s \in Slots |-> IdleFrame]
    /\ sw = IdleSweep
    /\ checks = {}
    /\ now = DAY
    /\ escaped = {}
    /\ flagged = [t \in Threads |-> "other"]
    /\ ext = 0
    /\ fails = 0

SpecA == InitA /\ [][NextS]_vars

(***************************************************************************)
(* SpecN: new posts.  A member opens a post with any title of UserNames    *)
(* and any tags of TagsN in one of the help forums; on_thread_create       *)
(* handles it, and on_thread_update handles the bot's edit.                *)
(***************************************************************************)
\* the tags a member gives a new post: none, some, with the unsolved or the solved
\* tag already chosen, and every tag slot used with and without the solved tag
TagsN ==
    { << >>,
      << "physics" >>,
      << "issue: bug", "physics" >>,
      << "physics", "solved" >>,
      << "unsolved", "issue: bug", "physics" >>,
      << "issue: bug", "physics", "audio", "draw" >>,
      << "issue: bug", "physics", "audio", "unsolved" >>,
      << "issue: bug", "physics", "audio", "draw", "solved" >>,
      << "issue: bug", "physics", "audio", "unsolved", "solved" >>,
      << "issue: bug", "physics", "audio", "draw", "input" >> }

NextN ==
    \/ \E t \in Posts, fid \in {ForumIds[i] : i \in 1..Len(ForumIds)},
          name \in UserNames, tags \in TagsN :
             Calm /\ CreateThread(t, fid, name, tags)
    \/ (\A s \in Slots : h[s].pc = "idle") /\ Dispatch(1)
    \/ CreateHandler(1)
    \* on_thread_update on the bot's edit of the new post
    \/ UpdateAudit(1) \/ UpdateExistsResolved(1) \/ UpdateSleep(1) \/ UpdateEdit(1)
    \/ Finish(1)

SpecN == Init /\ [][NextN]_vars

(***************************************************************************)
(* SpecF: the static methods and the owner-marker rule on their own.  A    *)
(* post has any title of NamesF with the tags of ReactedPost, or any tags  *)
(* of TagsF with the title "fix"; the methods are called on it, and the    *)
(* frame of a slot holds the last call and what it returned.               *)
(***************************************************************************)
\* a title of n letters
LongTitle(n) == [i \in 1..n |-> "x"]

NamesF ==
    { << "H", "E", "L", "P" >>,
      << "H", "E", "L", "P", " ", "M", "E" >>,
      << "f", "i", "x" >>,
      << " ", "f", "i", "x", " ", " ", "m", "y", " ", "b", "u", "g", " " >>,
      << "f", "i", "x", " ", "m", "y", " ", "b", "u", "g" >>,
      << "b", "u", "g", " ", "4", "2" >>,
      LongTitle(NAME_KEEP - 1), LongTitle(NAME_KEEP), LongTitle(NAME_KEEP + 1) }

\* the tag lists of a post: up to FORUM_THREAD_TAG_LIMIT of the forum's tags
TagsF ==
    { SelectSeq(AvailableTags, LAMBDA tag : tag \in chosen) :
        chosen \in { c \in SUBSET {AvailableTags[i] : i \in 1..Len(AvailableTags)} :
                       Cardinality(c) <= FORUM_THREAD_TAG_LIMIT } }

InitF ==
    /\ forum = UsualDefaults
    /\ cog = IdleCog
    /\ \E name \in NamesF, marked \in BOOLEAN, tags \in TagsF :
          /\ tags = ReactedPost.applied_tags \/ (name = << "f", "i", "x" >> /\ ~marked)
          /\ thr = [t \in Threads |->
                   IF t = OldPost THEN LockedOldPost
                     ELSE [ReactedPost EXCEPT
                             !.name = IF marked THEN name \o OwnerIdSuffix(OwnerId)
                                      ELSE name,
                             !.applied_tags = tags]]
    /\ audit = [t \in Threads |-> IF t = OldPost THEN None ELSE OwnerId]
    /\ sent = {}
    /\ gone = {}
    /\ nextId = 1
    /\ bad_help_thread_data = {}
    /\ inactive_help_thread_data = {}
    /\ queue = << >>
    /\ h = [s \in Slots |-> IdleFrame]
    /\ sw = IdleSweep
    /\ checks = {}
    /\ now = DAY
    /\ escaped = {}
    /\ flagged = [t \in Threads |-> "new"]
    /\ ext = 0
    /\ fails = 0

\* the call's frame: the method, the thread it was handed, what it returned
Returned(op, t, result) ==
    [IdleFrame EXCEPT !.pc = "done", !.op = op, !.t = t, !.before = thr[t],
                      !.result = result]

\* valid = self.validate_regulars_help_forum_channel_thread_tags(thread)
ValidateTags(s, t) ==
    /\ h' = [h EXCEPT ![s] =
               Returned("validate_tags", t,
                   IF validate_regulars_help_forum_channel_thread_tags(thr[t].applied_tags)
                   THEN "True" ELSE "False")]
    /\ UNCHANGED << thr, audit, sent, gone, nextId, bad_help_thread_data,
                    inactive_help_thread_data, queue, sw, checks, now, ext, escaped,
                    fails, flagged, forum, cog >>

\* caution_types = self.get_help_forum_channel_thread_name_cautions(thread)
NameCautionsOf(s, t) ==
    /\ h' = [h EXCEPT ![s] =
               [Returned("name_cautions", t, "ok") EXCEPT
                   !.caution_types =
                       get_help_forum_channel_thread_name_cautions(thr[t].name, OwnerId)]]
    /\ UNCHANGED << thr, audit, sent, gone, nextId, bad_help_thread_data,
                    inactive_help_thread_data, queue, sw, checks, now, ext, escaped,
                    fails, flagged, forum, cog >>

\* the rule without its test
owner_marker_always(th, thread_edits) ==
    WithEdit(thread_edits, "name", NameWithOwnerMarker(th.name, OwnerId))

\* the owner-marker rule: thread_edits["name"] unless the name carries the marker
owner_marker_rule(th, thread_edits) ==
    IF ~(EndsWith(th.name, OwnerIdSuffix(OwnerId)) \/ Contains(th.name, StrOfNat(OwnerId)))
    THEN WithEdit(thread_edits, "name", NameWithOwnerMarker(th.name, OwnerId))
    ELSE thread_edits

\* the rule and the edit that follows it: if thread_edits: await thread.edit(...)
OwnerMarkerRule(s, t) ==
    /\ LET e == owner_marker_rule(thr[t], NoEdits)
       IN  /\ thr' = [thr EXCEPT ![t] = EditedThread(@, e)]
           /\ h' = [h EXCEPT ![s] =
                      [Returned("owner_marker", t, "ok") EXCEPT
                          !.thread_edits = e, !.after0 = thr'[t]]]
    /\ UNCHANGED << audit, sent, gone, nextId, bad_help_thread_data,
                    inactive_help_thread_data, queue, sw, checks, now, ext, escaped,
                    fails, flagged, forum, cog >>

NextF ==
    \/ \E t \in Posts : ValidateTags(1, t)
    \/ \E s \in Slots, t \in Posts : NameCautionsOf(s, t)
    \/ \E t \in Posts : OwnerMarkerRule(1, t)

SpecF == InitF /\ [][NextF]_vars

(***************************************************************************)
(* EmbedHelpCommand.send_paginated_response_embeds (help.py).  The help    *)
(* command is invoked for a message and again whenever the message is      *)
(* edited; every invocation is a task of its own.  A paginator runs from   *)
(* the creation of its mainloop task until it is stopped or times out.     *)
(***************************************************************************)
MaxInvocations == 3

\* cog.cached_embed_paginators.get(response_message.id)
PaginatorOf(c, response_id) ==
    LET ps == {p \in c.cached_embed_paginators : p.response = response_id}
    IN  IF ps = {} THEN None ELSE (CHOOSE p \in ps : TRUE).paginator

\* cog.cached_embed_paginators[response_message.id] = paginator_tuple
WithPaginator(c, response_id, paginator) ==
    {p \in c.cached_embed_paginators : p.response # response_id}
        \cup {[response |-> response_id, paginator |-> paginator]}

\* paginator_tuple[0].is_running()
is_running(c, paginator) == \E p \in c.running : p.paginator = paginator

\* lines 269-283: one embed is edited into the response, several get a paginator
help_after_stop(f) ==
    [f EXCEPT !.pc = IF f.embeds = 1 THEN "edit_one" ELSE "edit_many"]

\* lines 257-267 and 299-312, up to the first await
help_start(c, f) ==
    IF c.cached_response_messages # None
    THEN LET response_message == c.cached_response_messages
             paginator_tuple == PaginatorOf(c, response_message)
             f1 == [f EXCEPT !.response_message = response_message,
                             !.paginator_tuple = paginator_tuple]
         IN  IF paginator_tuple # None /\ is_running(c, paginator_tuple)
             THEN [f1 EXCEPT !.pc = "stop"]
             ELSE help_after_stop(f1)
    ELSE [f EXCEPT !.pc = IF f.embeds = 1 THEN "send_one" ELSE "send_many"]

\* lines 314-323: the mainloop task is created and both caches are written
help_paginate(c, s, response_id) ==
    [c EXCEPT !.running = @ \cup {[response |-> response_id, paginator |-> c.started + 1]},
              !.started = @ + 1,
              !.cached_response_messages = response_id,
              !.cached_embed_paginators = WithPaginator(c, response_id, c.started + 1),
              !.calls[s].pc = "done"]

RestUnchanged ==
    UNCHANGED << thr, audit, sent, gone, nextId, bad_help_thread_data,
                 inactive_help_thread_data, queue, h, sw, checks, now, ext, escaped,
                 fails, flagged, forum >>

\* the help command is invoked for the message, with one embed or with several
HelpInvoke(s, embeds) ==
    /\ cog.calls[s].pc = "idle"
    /\ cog.invoked < MaxInvocations
    /\ cog' = [cog EXCEPT !.calls[s] = help_start(cog, [IdleCall EXCEPT !.embeds = embeds]),
                          !.invoked = @ + 1]
    /\ RestUnchanged

\* await paginator_tuple[0].stop()
HelpStop(s) ==
    /\ cog.calls[s].pc = "stop"
    /\ cog' = [cog EXCEPT
                 !.running = {p \in @ : p.paginator # cog.calls[s].paginator_tuple},
                 !.calls[s] = help_after_stop(@)]
    /\ RestUnchanged

\* await response_message.edit(embed=embeds[0]); discord.NotFound when the response
\* was deleted
HelpEditOne(s) ==
    /\ cog.calls[s].pc = "edit_one"
    /\ cog' = [cog EXCEPT !.calls[s].pc =
                 IF cog.calls[s].response_message \in cog.responses
                 THEN "done" ELSE "send_one"]
    /\ RestUnchanged

\* response_message := await response_message.edit(content=..., embed=None), then
\* the paginator; discord.NotFound when the response was deleted
HelpEditMany(s) ==
    /\ cog.calls[s].pc = "edit_many"
    /\ cog' = IF cog.calls[s].response_message \in cog.responses
              THEN help_paginate(cog, s, cog.calls[s].response_message)
              ELSE [cog EXCEPT !.calls[s].pc = "send_many"]
    /\ RestUnchanged

\* cog.cached_response_messages[ctx.message.id] = await destination.send(embed=...)
HelpSendOne(s) ==
    /\ cog.calls[s].pc = "send_one"
    /\ cog' = [cog EXCEPT !.responses = @ \cup {cog.sent + 1},
                          !.sent = @ + 1,
                          !.cached_response_messages = cog.sent + 1,
                          !.calls[s].pc = "done"]
    /\ RestUnchanged

\* response_message := await destination.send(content=...), then the paginator
HelpSendMany(s) ==
    /\ cog.calls[s].pc = "send_many"
    /\ cog' = help_paginate([cog EXCEPT !.responses = @ \cup {cog.sent + 1},
                                        !.sent = @ + 1,
                                        !.calls[s].response_message = cog.sent + 1],
                            s, cog.sent + 1)
    /\ RestUnchanged

\* the call returns
HelpReturn(s) ==
    /\ cog.calls[s].pc = "done"
    /\ cog' = [cog EXCEPT !.calls[s] = IdleCall]
    /\ RestUnchanged

\* a member deletes a response; its paginator may end with it or go on
ResponseDeleted(response_id) ==
    /\ response_id \in cog.responses
    /\ \E ends \in BOOLEAN :
          cog' = [cog EXCEPT !.responses = @ \ {response_id},
                             !.running = IF ends THEN {p \in @ : p.response # response_id}
                                         ELSE @]
    /\ RestUnchanged

\* inactivity_timeout=60: a paginator ends by itself
PaginatorTimeout(paginator) ==
    /\ is_running(cog, paginator)
    /\ cog' = [cog EXCEPT !.running = {p \in @ : p.paginator # paginator}]
    /\ RestUnchanged

HelpStep(s) ==
    \/ HelpStop(s) \/ HelpEditOne(s) \/ HelpEditMany(s)
    \/ HelpSendOne(s) \/ HelpSendMany(s) \/ HelpReturn(s)

(***************************************************************************)
(* SpecH: the invocations of the help command for one message.  A new      *)
(* invocation begins in a free slot whenever the message is edited, also   *)
(* while an earlier one waits for the platform.                            *)
(***************************************************************************)
NextH ==
    \/ \E s \in Slots, embeds \in {1, 2} : HelpInvoke(s, embeds)
    \/ \E s \in Slots : HelpStep(s)
    \/ \E response_id \in 1..MaxInvocations : ResponseDeleted(response_id)
    \/ \E paginator \in 1..MaxInvocations : PaginatorTimeout(paginator)

SpecH == Init /\ [][NextH]_vars

(***************************************************************************)
(* The properties.                                                         *)
(***************************************************************************)
NameCautions(th) == get_help_forum_channel_thread_name_cautions(th.name, OwnerId)
TagsInvalid(th) ==
    /\ th.parent_id = HELP_FORUM_CHANNEL_IDS.regulars
    /\ ~validate_regulars_help_forum_channel_thread_tags(th.applied_tags)
Violating(th) == NameCautions(th) # << >> \/ TagsInvalid(th)
\* the ids of the caution messages that were sent into thread t
CautionsSent(t) == {m.id : m \in {x \in sent : x.thread = t /\ x.kind = "caution"}}
\* a handler of the given event has run to its end without an HTTPException
Completed(f, op) == f.pc = "done" /\ f.op = op /\ f.result = "ok"
\* the non-bot edit of a thread that was flagged when it was created, after which
\* the thread has no title caution and no tag violation, was handled
ResolvedFlagged(f) ==
    /\ Completed(f, "thread_update")
    /\ f.actor # BotId
    /\ flagged[f.t] = "flagged"
    /\ ~Violating(f.after0)
RoundTripDone(f) ==
    /\ ~RowExists(bad_help_thread_data, f.t)
    /\ CautionsSent(f.t) \ gone = {}

\* C1 as the spec states it: whenever a thread was created with a title or tag
\* violation and a non-bot edit then left it without any, the thread has no
\* BadThreadRecord and every caution message sent has been deleted
C1_RoundTrip_AsStated ==
    \A s \in Slots : ResolvedFlagged(h[s]) => RoundTripDone(h[s])

\* C1 amended: the same, for an edit that leaves the thread neither archived nor locked
C1_RoundTrip ==
    \A s \in Slots :
       (ResolvedFlagged(h[s]) /\ ~h[s].after0.archived /\ ~h[s].after0.locked)
          => RoundTripDone(h[s])

C1_Witness ==
    \E s \in Slots :
       /\ ResolvedFlagged(h[s]) /\ ~h[s].after0.archived /\ ~h[s].after0.locked
       /\ CautionsSent(h[s].t) # {}
       /\ RoundTripDone(h[s])

\* C2: when on_thread_create has completed without a platform error for a thread
\* whose title is too short, one caution message per matched kind was sent, the
\* slowmode is the penalty, and the thread's one BadThreadRecord holds exactly the
\* ids of the caution messages sent
C2_TooShortCreate ==
    \A s \in Slots :
       LET f == h[s]
       IN  (/\ Completed(f, "thread_create")
            /\ InSeq("thread_title_too_short", NameCautions(f.after0)))
           => /\ Cardinality(CautionsSent(f.t))
                   = Len(NameCautions(f.after0)) + (IF TagsInvalid(f.after0) THEN 1 ELSE 0)
              /\ thr[f.t].slowmode_delay = THREAD_TITLE_TOO_SHORT_SLOWMODE_DELAY
              /\ Cardinality(FetchRows(bad_help_thread_data, f.t)) = 1
              /\ \A r \in FetchRows(bad_help_thread_data, f.t) :
                    r.caution_message_ids = CautionsSent(f.t)

C2_Witness ==
    \E s \in Slots :
       /\ Completed(h[s], "thread_create")
       /\ InSeq("thread_title_too_short", NameCautions(h[s].after0))
       /\ CautionsSent(h[s].t) # {}
       /\ RowExists(bad_help_thread_data, h[s].t)

\* C3: when on_thread_update has handled a non-bot change of the title, of the tags
\* or of both on an open thread, and the thread then has a title caution or fails
\* the tag validation, a caution message was sent for each violation and the
\* thread has a BadThreadRecord
C3_ViolationCautioned ==
    \A s \in Slots :
       LET f == h[s]
       IN  (/\ Completed(f, "thread_update")
            /\ f.actor # BotId
            /\ ~f.after0.archived /\ ~f.after0.locked
            /\ (f.before.name # f.after0.name
                  \/ f.before.applied_tags # f.after0.applied_tags)
            /\ Violating(f.after0))
           => /\ Len(f.caution_messages)
                   = Len(NameCautions(f.after0)) + (IF TagsInvalid(f.after0) THEN 1 ELSE 0)
              /\ RowExists(bad_help_thread_data, f.t)

\* C4: at most one BadThreadRecord and at most one InactiveThreadRecord per thread id
C4_OneRecordPerThread ==
    \A t \in Threads :
       /\ Cardinality(FetchRows(bad_help_thread_data, t)) <= 1
       /\ Cardinality(FetchRows(inactive_help_thread_data, t)) <= 1

\* a record of each table was saved over an earlier record of the same thread
C4_Witness ==
    \E t \in Threads :
       /\ \E r \in bad_help_thread_data :
             r.thread_id = t /\ r.last_cautioned_ts > thr[t].created_at
       /\ \E r \in inactive_help_thread_data :
             r.thread_id = t /\ r.alert_message_id = None

C6_NoLostIds ==
    LET f1 == h[1]
        f2 == h[2]
    IN  (/\ Completed(f1, "thread_update") /\ Completed(f2, "thread_update")
         /\ f1.t = f2.t
         /\ f1.caution_messages # << >> /\ f2.caution_messages # << >>)
        => \E r \in FetchRows(bad_help_thread_data, f1.t) :
              CautionIds(f1) \cup CautionIds(f2) \subseteq r.caution_message_ids

\* C7: when the remote thread edit of a handler has failed with a platform error,
\* the thread's persisted records are those from before the handler ran
C7_EditGatesWrites ==
    \A s \in Slots :
       LET f == h[s]
       IN  (/\ f.pc = "done"
            /\ f.result = "HTTPException"
            /\ f.failed_at \in {"c_edit", "u_edit", "a_unarchive", "a_edit"})
           => /\ FetchRows(bad_help_thread_data, f.t) = f.bad0
              /\ FetchRows(inactive_help_thread_data, f.t) = f.inactive0

\* C8: no exception propagates out of an event handler
C8_NoEscape ==
    escaped \cap {"thread_create", "thread_update", "raw_thread_delete"} = {}

\* C9: when a pass of a sweep ends after its thread listings succeeded, every
\* thread of every configured forum that the sweep goes over has been visited
C9_SweepVisitsAll ==
    (sw.pc = "done" /\ sw.result # "ListingFailed")
       => \A t \in Threads :
             thr[t].status = "live"
                => t \in sw.visited \/ (sw.kind = "archive" /\ thr[t].archived)

\* C10: when pinning the starter message has failed in on_thread_create, the rest
\* of the transition is still carried out: the unsolved tag, the BadThreadRecord
\* of a thread with a violation, the owner marker
C10_PinFailureIsLocal ==
    \A s \in Slots :
       LET f == h[s]
       IN  (f.pc = "done" /\ f.op = "thread_create" /\ f.failed_at = "c_pin")
           => /\ HasOwnerMarker(thr[f.t].name, OwnerId)
              /\ AnyTag(thr[f.t].applied_tags, StartsWithUnsolved)
              /\ (Violating(f.after0) => RowExists(bad_help_thread_data, f.t))

\* the inactivity sweep's iteration found its thread open to an alert: not locked,
\* not pinned, not solved, last active more than 23h30m before the sweep's time,
\* without InactiveThreadRecord, and not archived by its owner or a moderator
AlertDue(e) ==
    /\ e.kind = "inactive"
    /\ ~e.th0.locked /\ ~e.th0.flags_pinned
    /\ ~AnyTag(e.th0.applied_tags, StartsWithSolved)
    /\ e.now_ts - e.active0 > INACTIVITY_SECONDS
    /\ e.rows0 = {}
    /\ ~AlertSuppressed(e.th0)
\* the inactivity alerts that were posted into the thread during the iteration
AlertsOf(e) ==
    {m \in sent : m.thread = e.t /\ m.kind = "inactive_alert" /\ m.id >= e.id0}
\* exactly one alert was posted, and the thread's record holds its id
AlertedAndRecorded(e) ==
    /\ Cardinality(AlertsOf(e)) = 1
    /\ \A m \in AlertsOf(e) :
          /\ Cardinality(FetchRows(inactive_help_thread_data, e.t)) = 1
          /\ \A r \in FetchRows(inactive_help_thread_data, e.t) :
                r.alert_message_id = m.id

\* C11: an iteration of the inactivity sweep on a thread that is due for an alert
\* (not locked, pinned or solved, last activity more than 23 h 30 min ago, no
\* record, not archived by its owner or a moderator) posts exactly one alert and
\* stores an InactiveThreadRecord with the alert's id; every request of the
\* iteration was answered by the platform
C11_AlertPosted ==
    \A e \in sw.log : (AlertDue(e) /\ ~e.failed) => AlertedAndRecorded(e)

C11_Witness ==
    \E e \in sw.log : AlertDue(e) /\ ~e.failed /\ AlertedAndRecorded(e)

\* the alert that the thread's record held when the iteration began
RecordedAlerts(e) == {r.alert_message_id : r \in {x \in e.rows0 : x.alert_message_id # None}}
\* the inactivity sweep's iteration found a recorded alert and, as the newest message
\* of the thread, a member's message that was sent after the alert
AlertStale(e) ==
    /\ e.kind = "inactive"
    /\ \E a \in RecordedAlerts(e) : \E m \in sent :
          /\ m.thread = e.t /\ m.kind = "member" /\ m.id \notin e.gone0
          /\ m.created_at = e.active0
          /\ m.id > a
\* the alert is deleted and the record is rewritten with the last message's time and
\* without alert
AlertCleared(e) ==
    /\ RecordedAlerts(e) \subseteq gone
    /\ FetchRows(inactive_help_thread_data, e.t)
          = {InactiveHelpThreadData(e.t, e.active0, None)}
\* the thread is one the sweep goes into, its last message is less than 23h30m old,
\* and no request of the iteration raised anything but NotFound
ClearingDue(e) ==
    /\ AlertStale(e)
    /\ ~e.th0.locked /\ ~e.th0.flags_pinned
    /\ ~AnyTag(e.th0.applied_tags, StartsWithSolved)
    /\ e.now_ts - e.active0 <= INACTIVITY_SECONDS
    /\ ~e.failed

C12_NotFoundCase ==
    \E e \in sw.log :
       /\ ClearingDue(e) /\ AlertCleared(e)
       /\ RecordedAlerts(e) \subseteq e.gone0
\* the inactivity sweep's iteration found its thread locked, pinned or solved, or
\* archived by its owner or by a member with the manage-threads permission
AlertBarred(e) ==
    /\ e.kind = "inactive"
    /\ \/ e.th0.locked \/ e.th0.flags_pinned
       \/ AnyTag(e.th0.applied_tags, StartsWithSolved)
       \/ AlertSuppressed(e.th0)

NewlySolved(f) ==
    /\ ~f.after0.archived /\ ~f.after0.locked
    /\ ~AnyTag(f.before.applied_tags, StartsWithSolved)
    /\ AnyTag(f.after0.applied_tags, StartsWithSolved)
\* the solved alerts that the handler sent
SolvedAlertsOf(f) ==
    {m \in sent : m.thread = f.t /\ m.kind = "solved_alert" /\ m.id >= f.id0}

\* C14: when on_thread_update has handled an update of an open thread that newly
\* applied the solved tag, whoever made it, a solved alert was sent into the thread,
\* and the thread's auto-archive duration is 60 minutes and its tags are the
\* update's tags without the unsolved ones
C14_SolvedTransition ==
    \A s \in Slots :
        (Completed(h[s], "thread_update") /\ NewlySolved(h[s])) =>
            /\ SolvedAlertsOf(h[s]) # {}
            /\ thr[h[s].t].auto_archive_duration = SOLVED_AUTO_ARCHIVE
            /\ thr[h[s].t].applied_tags
                  = SelectSeq(h[s].after0.applied_tags,
                              LAMBDA tag : ~StartsWithUnsolved(tag))

\* the handler made the solved transition: it was started for an update that newly
\* applied the solved tag, sent the solved alert and has ended, with or without
\* an exception
SolvedHandled(f) ==
    /\ f.pc = "done" /\ f.op = "thread_update"
    /\ NewlySolved(f)
    /\ SolvedAlertsOf(f) # {}
\* the alert that the thread's record held when the handler started
RecordedAlertsAt(f) ==
    {r.alert_message_id : r \in {x \in f.inactive0 : x.alert_message_id # None}}

\* C15: after on_thread_update has made the solved transition of a thread, the
\* thread has no InactiveThreadRecord, and the deletion of the recorded alert was
\* requested: the alert is deleted, or the request is the one that failed
C15_RecordClearedWhenSolved ==
    \A s \in Slots :
        SolvedHandled(h[s]) =>
            /\ FetchRows(inactive_help_thread_data, h[s].t) = {}
            /\ \A a \in RecordedAlertsAt(h[s]) :
                  a \in gone \/ h[s].failed_at = "u_in_delete_msg"

\* the deletion of the recorded alert failed, and the record is removed
C15_Witness ==
    \E s \in Slots :
        /\ SolvedHandled(h[s])
        /\ RecordedAlertsAt(h[s]) # {}
        /\ h[s].failed_at = "u_in_delete_msg"
        /\ RecordedAlertsAt(h[s]) \cap gone = {}
        /\ FetchRows(inactive_help_thread_data, h[s].t) = {}

\* the update that the handler was started for removed the solved tag from an open
\* thread
SolvedRemoved(f) ==
    /\ ~f.after0.archived /\ ~f.after0.locked
    /\ AnyTag(f.before.applied_tags, StartsWithSolved)
    /\ ~AnyTag(f.after0.applied_tags, StartsWithSolved)
\* the update's tags, with the forum's unsolved tag in front if there is room
WithUnsolvedTag(tags) ==
    IF Len(tags) < FORUM_THREAD_TAG_LIMIT THEN FirstTag(StartsWithUnsolved) \o tags ELSE tags

\* C16: when on_thread_update has handled an update of an open thread that removed
\* the solved tag, the thread's tags are the update's tags with the forum's unsolved
\* tag re-inserted if there were fewer than FORUM_THREAD_TAG_LIMIT, its auto-archive
\* duration is the forum's default and its slowmode is the forum's default
C16_UnsolvedTransition ==
    \A s \in Slots :
        (Completed(h[s], "thread_update") /\ SolvedRemoved(h[s])) =>
            /\ thr[h[s].t].applied_tags = WithUnsolvedTag(h[s].after0.applied_tags)
            /\ thr[h[s].t].auto_archive_duration
                  = ForumDefaults.default_auto_archive_duration
            /\ thr[h[s].t].slowmode_delay = ForumDefaults.default_thread_slowmode_delay

\* the archive-timeout sweep's iteration came to a thread that was not archived, not
\* locked and not pinned and whose inactivity exceeded its auto-archive duration
ArchiveDue(e) ==
    /\ e.kind = "archive"
    /\ ~e.th0.archived /\ ~e.th0.locked /\ ~e.th0.flags_pinned
    /\ e.now_ts - e.active0 > 60 * e.th0.auto_archive_duration
\* the slowmode after the iteration: 60 s for a solved thread that had the forum's
\* default slowmode
SlowmodeAfterTimeout(th) ==
    IF /\ AnyTag(th.applied_tags, StartsWithSolved)
       /\ th.slowmode_delay = ForumDefaults.default_thread_slowmode_delay
    THEN SOLVED_SLOWMODE ELSE th.slowmode_delay

C18_DeletionChecks ==
    /\ "help_thread_deletion_checks" \notin escaped
    /\ \A k \in checks :
          /\ k.result = "deleted" =>
                /\ k.member_msg_count < THREAD_DELETION_MESSAGE_THRESHOLD
                /\ \E m \in sent : m.id = k.warning /\ m.kind = "deletion_warning"
                                    /\ m.thread = k.t
                /\ k.ended_at >= k.warned_at + DELETION_WAIT
          /\ k.member_msg_count >= THREAD_DELETION_MESSAGE_THRESHOLD =>
                k.warning = None /\ k.pc = "done" /\ k.result = "kept"
          /\ (k.pc = "done" /\ k.thread_gone) => k.result = "NotFound"

\* one coroutine deleted an orphaned post after its warning and wait
C18_Witness ==
    \E k \in checks :
        /\ k.result = "deleted" /\ k.warning # None
        /\ thr[k.t].status = "deleted"
        /\ k.ended_at >= k.warned_at + DELETION_WAIT

\* C19: no deferred edit of on_thread_update, neither the batched edit after the
\* 5 s sleep nor the re-archiving edit, puts its own value in the place of a name,
\* of tags or of a slowmode that a member has set while the handler slept
C19_NoStaleEdit ==
    \A s \in Slots : ~h[s].stale

\* on_raw_thread_delete has run for the deleted thread t and has ended, and no
\* iteration of a sweep is under way on t
DeletionHandled(t) ==
    /\ thr[t].status = "deleted"
    /\ \A i \in 1..Len(queue) : ~(queue[i].type = "raw_thread_delete" /\ queue[i].t = t)
    /\ \A s \in Slots : ~(h[s].op = "raw_thread_delete" /\ h[s].t = t)
    /\ sw.t # t

\* C20: once a thread is deleted, on_raw_thread_delete has ended for it and the
\* sweep iteration that was under way on it is over, the thread has no
\* InactiveThreadRecord
C20_NoRecordAfterDeletion ==
    \A t \in Threads : DeletionHandled(t) => FetchRows(inactive_help_thread_data, t) = {}
(***************************************************************************)
(* White check marks (SpecR).                                              *)
(***************************************************************************)
\* on_raw_reaction_add ran to its end for a white check mark on a message that was
\* not pinned when the handler fetched it
AddedToUnpinned(f) == Completed(f, "reaction_add") /\ ~f.msg_pinned

\* the member who reacted is the owner of the thread or an administrator
ByOwnerOrAdmin(f) == f.actor = OwnerId \/ IsAdministrator(f.actor)

\* C21: when a white check mark was added to a message that was not pinned yet, by
\* the owner of the thread or by an administrator, or as one of at least
\* REACTION_PIN_COUNT white check marks on the message, the message is pinned
C21_PinnedOnReaction ==
    \A s \in Slots :
        (/\ AddedToUnpinned(h[s])
         /\ ByOwnerOrAdmin(h[s]) \/ h[s].msg_count >= REACTION_PIN_COUNT) =>
            PinnedOf(thr[h[s].t], h[s].msg)
\* on_raw_reaction_add ran to its end for a white check mark on the starter message
\* of a thread that, when the mark was added, had no solved and no invalid tag and
\* fewer than FORUM_THREAD_TAG_LIMIT tags
AddedToUnsolvedStarter(f) ==
    /\ Completed(f, "reaction_add")
    /\ f.msg = "starter"
    /\ ~AnyTag(f.before.applied_tags, StartsWithSolved)
    /\ ~AnyTag(f.before.applied_tags, StartsWithInvalid)
    /\ Len(f.before.applied_tags) < FORUM_THREAD_TAG_LIMIT

\* the thread's tags end with the forum's solved tag
SolvedAppended(th) ==
    th.applied_tags # << >> /\ << th.applied_tags[Len(th.applied_tags)] >> = FirstTag(StartsWithSolved)

RemovedBelowCount(f) ==
    Completed(f, "reaction_remove") /\ f.msg_pinned /\ f.msg_count < REACTION_PIN_COUNT

\* C23: when a white check mark was removed from a pinned message that is left with
\* fewer than REACTION_PIN_COUNT marks, the message is not pinned any more, and if
\* it is the starter message of a thread with the solved tag, the thread has no
\* solved tag any more
C23_UnpinnedOnRemoval ==
    \A s \in Slots :
        RemovedBelowCount(h[s]) =>
            /\ ~PinnedOf(thr[h[s].t], h[s].msg)
            /\ (h[s].msg = "starter" /\ AnyTag(h[s].before.applied_tags, StartsWithSolved)) =>
                  ~AnyTag(thr[h[s].t].applied_tags, StartsWithSolved)
(***************************************************************************)
(* The static methods (SpecF).                                             *)
(***************************************************************************)
\* validate_regulars_help_forum_channel_thread_tags returned for the tags of f.before
Validated(f) == f.pc = "done" /\ f.op = "validate_tags"

IssueTags(tags) == SelectSeq(tags, StartsWithIssue)
\* the tags that are neither issue- nor unsolved-prefixed
AspectTags(tags) == SelectSeq(tags, LAMBDA tag : ~StartsWithIssue(tag) /\ ~StartsWithUnsolved(tag))
Exempt(tags) == AnyTag(tags, StartsWithSolved) \/ AnyTag(tags, StartsWithInvalid)

\* C24: for a non-empty tag list without solved- or invalid-prefixed tag,
\* validate_regulars_help_forum_channel_thread_tags returns true if and only if the
\* list has exactly one issue tag and between 1 and 3 tags that are neither issue-
\* nor unsolved-prefixed
C24_ValidTags ==
    \A s \in Slots :
        (/\ Validated(h[s])
         /\ h[s].before.applied_tags # << >>
         /\ ~Exempt(h[s].before.applied_tags)) =>
            (h[s].result = "True" <=>
                /\ Len(IssueTags(h[s].before.applied_tags)) = 1
                /\ Len(AspectTags(h[s].before.applied_tags)) \in 1..3)

\* C25: validate_regulars_help_forum_channel_thread_tags returns true for the empty
\* tag list and for every tag list with a solved- or invalid-prefixed tag
C25_ExemptTags ==
    \A s \in Slots :
        (/\ Validated(h[s])
         /\ h[s].before.applied_tags = << >> \/ Exempt(h[s].before.applied_tags)) =>
            h[s].result = "True"

\* the method returned true for a list with the invalid tag, two issue tags and no
\* aspect tag
C25_Witness ==
    \E s \in Slots :
        /\ Validated(h[s])
        /\ h[s].before.applied_tags = << "issue: bug", "issue: howto", "invalid" >>
        /\ h[s].result = "True"
\* get_help_forum_channel_thread_name_cautions returned for the name of f.before
Classified(f) == f.pc = "done" /\ f.op = "name_cautions"

SeqToSet(seq) == {seq[i] : i \in 1..Len(seq)}

\* the enabled caution kinds whose rule matches the name once the owner marker is
\* removed from it and its whitespace is normalised
MatchingKinds(name) ==
    {c \in SeqToSet(INVALID_HELP_THREAD_TITLE_TYPES) :
        /\ INVALID_HELP_THREAD_TITLE_SCANNING_ENABLED[c]
        /\ TitlePatternMatches(c, NormalizeWs(RemoveAll(name, OwnerIdSuffix(OwnerId)), FALSE))}

\* what the method returns is right, the same for the name with the owner marker
\* appended, and the same whenever it is computed
CautionsRight ==
    \A s \in Slots :
        Classified(h[s]) =>
            /\ SeqToSet(h[s].caution_types) = MatchingKinds(h[s].before.name)
            /\ h[s].caution_types
                  = get_help_forum_channel_thread_name_cautions(
                        h[s].before.name \o OwnerIdSuffix(OwnerId), OwnerId)
            /\ \A s2 \in Slots :
                  (Classified(h[s2]) /\ h[s2].before.name = h[s].before.name) =>
                      h[s2].caution_types = h[s].caution_types

\* C26: get_help_forum_channel_thread_name_cautions returns exactly the enabled
\* caution kinds whose rule matches the title without the owner marker and with
\* normalised whitespace; it returns the same for the title with the owner marker
\* appended and the same on every computation, and the call changes no thread, no
\* message and no record
C26_NameCautions ==
    /\ []CautionsRight
    /\ [][(\E s \in Slots, t \in Posts : NameCautionsOf(s, t)) =>
             UNCHANGED << thr, sent, gone, bad_help_thread_data,
                          inactive_help_thread_data >>]_vars

\* the method was computed twice for "HELP" with the owner marker and found it too
\* short and in capitals both times
C26_Witness ==
    /\ \A s \in Slots :
          /\ Classified(h[s])
          /\ h[s].before.name = << "H", "E", "L", "P" >> \o OwnerIdSuffix(OwnerId)
          /\ h[s].caution_types = << "thread_title_too_short", "thread_title_all_caps" >>
\* the owner-marker rule was applied to the name of f.before and appended the marker
MarkerAppended(f) ==
    f.pc = "done" /\ f.op = "owner_marker" /\ "name" \in f.thread_edits.keys

\* what precedes the owner marker at the end of the name
BeforeMarker(name) == SubSeq(name, 1, Len(name) - Len(OwnerIdSuffix(OwnerId)))

\* C28 as stated: whenever the bot appends the owner marker, at most NAME_KEEP
\* characters precede the marker in the new name
C28_FreeTextLength_AsStated ==
    \A s \in Slots :
        MarkerAppended(h[s]) =>
            /\ EndsWith(h[s].after0.name, OwnerIdSuffix(OwnerId))
            /\ Len(BeforeMarker(h[s].after0.name)) <= NAME_KEEP

\* C28 amended: whenever the bot appends the owner marker, a name of fewer than
\* NAME_KEEP characters precedes the marker whole, and of a name of NAME_KEEP
\* characters or more the first NAME_KEEP characters followed by three dots precede
\* it: at most NAME_KEEP + 3 characters
C28_FreeTextLength ==
    \A s \in Slots :
        MarkerAppended(h[s]) =>
            /\ EndsWith(h[s].after0.name, OwnerIdSuffix(OwnerId))
            /\ Len(BeforeMarker(h[s].after0.name)) <= NAME_KEEP + 3
            /\ BeforeMarker(h[s].after0.name) =
                  IF Len(h[s].before.name) < NAME_KEEP THEN h[s].before.name
                  ELSE SubSeq(h[s].before.name, 1, NAME_KEEP) \o << ".", ".", "." >>

\* the marker was appended to a name of NAME_KEEP + 1 characters
C28_Witness ==
    \E s \in Slots :
        /\ MarkerAppended(h[s])
        /\ Len(h[s].before.name) = NAME_KEEP + 1
        /\ Len(BeforeMarker(h[s].after0.name)) = NAME_KEEP + 3

\* the owner-marker rule was applied to the name of f.before
RuleApplied(f) == f.pc = "done" /\ f.op = "owner_marker"

\* C29: the owner-marker rule applied to a name that ends with the owner marker
\* edits nothing, and applied to the name it has produced it edits nothing
C29_MarkerIdempotent ==
    \A s \in Slots :
        RuleApplied(h[s]) =>
            /\ EndsWith(h[s].before.name, OwnerIdSuffix(OwnerId)) =>
                  (h[s].thread_edits = NoEdits /\ h[s].after0.name = h[s].before.name)
            /\ EndsWith(h[s].after0.name, OwnerIdSuffix(OwnerId))
                  => owner_marker_rule(h[s].after0, NoEdits) = NoEdits

\* the rule was applied a second time, to the name that it had cut and marked
C29_Witness ==
    \E s \in Slots :
        /\ RuleApplied(h[s])
        /\ h[s].before.name = NameWithOwnerMarker(LongTitle(NAME_KEEP + 1), OwnerId)
        /\ h[s].thread_edits = NoEdits
        /\ thr[h[s].t].name = h[s].before.name
(***************************************************************************)
(* The owner marker in the life of a post.                                 *)
(***************************************************************************)
\* the thread's name contains the owner marker
Marked(t) == Contains(thr[t].name, OwnerIdSuffix(OwnerId))

\* C27: after on_thread_create, after the solved and the unsolved transition of
\* on_thread_update and after the archive-timeout sweep's iteration on a thread that
\* is due, each handled without a failed request, the thread's name contains the
\* owner marker
C27_OwnerMarkerKept ==
    /\ \A s \in Slots :
          Completed(h[s], "thread_create") => Marked(h[s].t)
    /\ \A s \in Slots :
          (Completed(h[s], "thread_update") /\ (NewlySolved(h[s]) \/ SolvedRemoved(h[s])))
             => Marked(h[s].t)
    /\ \A e \in sw.log :
          (ArchiveDue(e) /\ ~e.failed) => Marked(e.t)
(***************************************************************************)
(* The end of the slowmode penalty.                                        *)
(***************************************************************************)
TooShort(name) ==
    InSeq("thread_title_too_short", get_help_forum_channel_thread_name_cautions(name, OwnerId))

\* on_thread_update has handled a member's or moderator's edit of an open thread
\* that had the slowmode penalty for its too short title, after which the title is
\* not too short
PenaltyOver(f) ==
    /\ Completed(f, "thread_update")
    /\ f.actor # BotId
    /\ ~f.after0.archived /\ ~f.after0.locked
    /\ TooShort(f.before.name)
    /\ f.before.slowmode_delay = THREAD_TITLE_TOO_SHORT_SLOWMODE_DELAY
    /\ f.after0.slowmode_delay = THREAD_TITLE_TOO_SHORT_SLOWMODE_DELAY
    /\ ~TooShort(f.after0.name)

\* C30: when on_thread_update has handled an edit that was not the bot's and that
\* leaves the title of a thread with the slowmode penalty no longer too short, the
\* thread's slowmode is the forum's default
C30_PenaltyReverted ==
    \A s \in Slots :
        PenaltyOver(h[s]) =>
            thr[h[s].t].slowmode_delay = ForumDefaults.default_thread_slowmode_delay
(***************************************************************************)
(* New posts (SpecN).                                                      *)
(***************************************************************************)
\* on_thread_create ran to its end without a failed request for a thread that was
\* created with fewer than FORUM_THREAD_TAG_LIMIT tags, or with that many and the
\* solved tag among them
CreatedWithRoom(f) ==
    /\ Completed(f, "thread_create")
    /\ \/ Len(f.after0.applied_tags) < FORUM_THREAD_TAG_LIMIT
       \/ /\ Len(f.after0.applied_tags) = FORUM_THREAD_TAG_LIMIT
          /\ AnyTag(f.after0.applied_tags, StartsWithSolved)

\* C31: after on_thread_create has handled, without a failed request, a new thread
\* that had fewer than FORUM_THREAD_TAG_LIMIT tags, or that many and the solved tag
\* among them, the starter message is pinned and the thread's tags include the
\* forum's unsolved tag and no solved tag
C31_CreatedUnsolved ==
    \A s \in Slots :
        CreatedWithRoom(h[s]) =>
            /\ thr[h[s].t].starter = "pinned"
            /\ AnyTag(thr[h[s].t].applied_tags, LAMBDA tag : << tag >> = FirstTag(StartsWithUnsolved))
            /\ ~AnyTag(thr[h[s].t].applied_tags, StartsWithSolved)

\* a post that was opened with five tags, the solved tag among them, has the
\* unsolved tag in its place
C31_Witness ==
    \E s \in Slots :
        /\ CreatedWithRoom(h[s])
        /\ h[s].after0.applied_tags = << "issue: bug", "physics", "audio", "draw", "solved" >>
        /\ thr[h[s].t].applied_tags = << "unsolved", "issue: bug", "physics", "audio", "draw" >>
        /\ thr[h[s].t].starter = "pinned"
(***************************************************************************)
(* Inactivity periods (SpecS).                                             *)
(***************************************************************************)
\* the inactivity sweep's iteration found a thread whose alert an earlier sweep had
\* cleared after a member's message: the record holds that message's time and no
\* alert, the message is still the last one and is more than 23h30m old, and the
\* thread is not locked, not pinned, not solved and not archived by its owner or a
\* moderator
InactiveAgain(e) ==
    /\ e.kind = "inactive"
    /\ ~e.th0.locked /\ ~e.th0.flags_pinned
    /\ ~AnyTag(e.th0.applied_tags, StartsWithSolved)
    /\ ~AlertSuppressed(e.th0)
    /\ e.rows0 = {InactiveHelpThreadData(e.t, e.active0, None)}
    /\ e.now_ts - e.active0 > INACTIVITY_SECONDS

\* C32: when the alert of a thread was cleared after a member's message and no
\* further message arrived, the inactivity sweep that finds the message more than
\* 23h30m old posts a new inactivity alert
C32_AlertedAgain ==
    \A e \in sw.log : (InactiveAgain(e) /\ ~e.failed) => AlertsOf(e) # {}
(***************************************************************************)
(* The unpin decision of on_raw_reaction_remove (SpecR).                   *)
(***************************************************************************)
\* on_raw_reaction_remove ran to its end for a white check mark taken from a message
\* that was pinned
RemovedFromPinned(f) == Completed(f, "reaction_remove") /\ f.msg_pinned

\* C33: when a white check mark was removed from a pinned message, the message is
\* unpinned exactly when fewer than REACTION_PIN_COUNT marks are left on it,
\* whoever removed the mark
C33_UnpinByCountOnly ==
    \A s \in Slots :
        RemovedFromPinned(h[s]) =>
            (~PinnedOf(thr[h[s].t], h[s].msg) <=> h[s].msg_count < REACTION_PIN_COUNT)
(***************************************************************************)
(* A rename during on_thread_create (SpecG).                               *)
(***************************************************************************)
\* the post was opened and renamed, every handler has finished, and the post is
\* left without a title caution and without a tag violation
ResolvedAtRest(t) ==
    /\ Quiet
    /\ ext = MaxExternal
    /\ thr[t].status = "live"
    /\ ~Violating(thr[t])

\* C34: once on_thread_create and the on_thread_update of a resolving rename have
\* both finished, however they interleaved, the post has no BadThreadRecord, no
\* caution message that is not deleted, and no slowmode penalty
C34_RenamedWhileCreating ==
    \A t \in Posts :
        ResolvedAtRest(t) =>
            /\ ~RowExists(bad_help_thread_data, t)
            /\ CautionsSent(t) \ gone = {}
            /\ thr[t].slowmode_delay # THREAD_TITLE_TOO_SHORT_SLOWMODE_DELAY
(***************************************************************************)
(* Caution messages and the record that names them (Spec).                 *)
(***************************************************************************)
\* the caution message ids in the BadThreadRecord of thread t
RecordedCautions(t) ==
    UNION {row.caution_message_ids : row \in FetchRows(bad_help_thread_data, t)}

\* a handler of a thread event has finished, normally or by a platform failure
HandlerEnded(f) ==
    f.pc = "done" /\ f.op \in {"thread_create", "thread_update"} /\ ~f.raising

\* C35: whenever a handler has finished, normally or aborted by a platform failure,
\* every caution message sent into its thread and not deleted since has its id in
\* the thread's BadThreadRecord
C35_NoOrphanedCautions ==
    \A s \in Slots :
        (HandlerEnded(h[s]) /\ thr[h[s].t].status = "live") =>
            CautionsSent(h[s].t) \ gone \subseteq RecordedCautions(h[s].t)
(***************************************************************************)
(* The events that the bot's own edits cause (SpecL).                      *)
(***************************************************************************)
\* C36: after an event, the handlers of the thread updates that the bot's own edits
\* cause make finitely many edits: in the end no event waits and no handler runs,
\* whatever the default slowmode and the default archive duration of the forum
C36_ChainsEnd == <>[]Quiet
(***************************************************************************)
(* One alert per inactivity period (SpecA).                                *)
(***************************************************************************)
\* the inactivity alerts in thread t that are not deleted
UndeletedAlerts(t) ==
    {m \in sent : m.thread = t /\ m.kind = "inactive_alert" /\ m.id \notin gone}

\* no message was sent into thread t after an inactivity alert, other than alerts
NothingNewSinceAlert(t) ==
    \A m \in sent, a \in sent :
        (m.thread = t /\ a.thread = t /\ a.kind = "inactive_alert"
            /\ m.kind # "inactive_alert") => m.id < a.id

\* C37: as long as nobody writes into a thread after its inactivity alert, the
\* sweeps post no further alert, however often they run and however old the alert
\* gets: the thread holds at most one alert
C37_OneAlert ==
    \A t \in Posts :
        NothingNewSinceAlert(t) =>
            Cardinality({m \in sent : m.thread = t /\ m.kind = "inactive_alert"}) <= 1

\* a sweep came to a thread whose alert, its newest message, was older than
\* 23 h 30 min, and posted nothing
C37_Witness ==
    \E e \in sw.log :
        /\ e.kind = "inactive"
        /\ RecordedAlerts(e) # {}
        /\ RecordedAlerts(e) = {m.id : m \in UndeletedAlerts(e.t)}
        /\ \A r \in e.rows0 : e.active0 = r.last_active_ts
        /\ e.now_ts - e.active0 > INACTIVITY_SECONDS
        /\ ~e.failed
        /\ AlertsOf(e) = {}
        /\ NothingNewSinceAlert(e.t)
(***************************************************************************)
(* The solved and the unsolved tag (SpecT).                                *)
(***************************************************************************)
\* no request has failed, and the post is open and has the title it started with
TagsSettled(t) ==
    /\ Quiet
    /\ fails = 0
    /\ thr[t].status = "live" /\ ~thr[t].archived /\ ~thr[t].locked
    /\ thr[t].name \in {FlaggedPost.name, ReopenedSolvedPost.name}

\* C38: when no event waits and no handler runs, an open post whose tags members
\* have edited does not carry a solved tag and an unsolved tag at once
C38_SolvedXorUnsolved ==
    \A t \in Posts :
        TagsSettled(t) =>
            ~(/\ AnyTag(thr[t].applied_tags, StartsWithSolved)
              /\ AnyTag(thr[t].applied_tags, StartsWithUnsolved))
(***************************************************************************)
(* The tag lists that the bot submits (SpecN).                             *)
(***************************************************************************)
\* a tag list without a tag twice and within FORUM_THREAD_TAG_LIMIT
WellFormedTags(tags) ==
    /\ \A i, j \in 1..Len(tags) : tags[i] = tags[j] => i = j
    /\ Len(tags) <= FORUM_THREAD_TAG_LIMIT

\* the applied_tags that a handler is about to submit in a thread edit
SubmittedTags(f) ==
    IF f.pc \in {"c_edit", "u_edit"} /\ "applied_tags" \in f.thread_edits.keys
    THEN {f.thread_edits.applied_tags}
    ELSE IF f.pc = "r_edit" THEN {f.new_tags} ELSE {}

\* C39: every applied-tags list that a handler submits in a thread edit holds each
\* tag at most once and at most FORUM_THREAD_TAG_LIMIT tags
C39_TagListsWellFormed ==
    \A s \in Slots : \A tags \in SubmittedTags(h[s]) : WellFormedTags(tags)
(***************************************************************************)
(* The paginators of the help command (SpecH).                             *)
(***************************************************************************)
\* C40: whatever the invocations of the help command for one message, at most one
\* embed paginator of theirs runs at any time
C40_OnePaginator == Cardinality(cog.running) <= 1
====
